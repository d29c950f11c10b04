------------------------------ MODULE PreAudit ------------------------------
(***************************************************************************)
(* The pre-audit of a bundle: `stage_1_syntax`, `stage_2_heuristics` and   *)
(* `run_pre_audit`, which are pure.  A text is what the stages look at:    *)
(* its length, and whether one of the sensitive patterns matches it; a     *)
(* predicate also whether its upper-case form is in the allowlist.         *)
(***************************************************************************)
EXTENDS Integers, Sequences

CONSTANTS
    MaxTriples,     \* MAX_BUNDLE_TRIPLES
    MaxEntities,    \* MAX_BUNDLE_ENTITIES
    MaxField        \* MAX_TRIPLE_FIELD_LEN and MAX_ENTITY_NAME_LEN

ASSUME SizesAssumption == MaxTriples \in Nat /\ MaxEntities \in Nat /\ MaxField \in Nat

Texts == [length : Nat, sensitive : BOOLEAN]
Predicates == [length : Nat, sensitive : BOOLEAN, allowed : BOOLEAN]
Triples == [subject : Texts, predicate : Predicates, object : Texts]

\* The confidence is left out: the request schema has refused what the stage
\* would.
Bundles == [origin : Texts, entities : Seq([name : Texts, description : Texts]),
            relations : Seq(Triples)]

Elements(s) == {s[i] : i \in DOMAIN s}

WellFormed(text) == text.length \in 1..MaxField

stage_1_syntax(b) ==
    /\ b.origin.length > 0
    /\ Len(b.relations) <= MaxTriples
    /\ Len(b.entities) <= MaxEntities
    /\ \A t \in Elements(b.relations) :
          WellFormed(t.subject) /\ WellFormed(t.object) /\ t.predicate.length > 0
    /\ \A e \in Elements(b.entities) : WellFormed(e.name)

ScannedTexts(b) ==
    UNION {{t.subject, t.object, t.predicate} : t \in Elements(b.relations)}
        \cup UNION {{e.name, e.description} : e \in Elements(b.entities)}

stage_2_heuristics(b) ==
    /\ \A text \in ScannedTexts(b) : ~text.sensitive
    /\ \A t \in Elements(b.relations) : t.predicate.allowed

\* The heuristics are skipped, and count as failed, after a syntax error.
run_pre_audit(b) ==
    LET syntax_ok == stage_1_syntax(b)
        heuristic_ok == syntax_ok /\ stage_2_heuristics(b)
    IN  [syntax_ok |-> syntax_ok, heuristic_ok |-> heuristic_ok,
         passed |-> syntax_ok /\ heuristic_ok]

=============================================================================
