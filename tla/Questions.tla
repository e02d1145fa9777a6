----------------------------- MODULE Questions -----------------------------
(***************************************************************************)
(* What the decision procedures of the program share as state machines: a  *)
(* question is asked (a request, or one item of a report), some work is    *)
(* done on it, an answer is given.  Each procedure has a module of its own *)
(* that extends this one and owns the questions with its value of part.    *)
(***************************************************************************)
EXTENDS Naturals, Sequences, FiniteSets

VARIABLES
    asked,    \* the question: a record whose field part names the procedure
    known,    \* the work so far: a record with a field step
    answer    \* the answer, once known.step is "done"

questionVars == <<asked, known, answer>>

Asked(part) == asked.part = part
AtStep(step) == known.step = step
Answered(part) == Asked(part) /\ AtStep("done")

(* The work ends with this answer. *)
Answer(a) ==
    /\ known' = [known EXCEPT !.step = "done"]
    /\ answer' = a
    /\ UNCHANGED asked

RangeOf(seq) == {seq[i] : i \in DOMAIN seq}

(* The elements of seq that are in S, in order: SelectSeq with the test m    *)
(* \in S, as a function on the length, which can be proved about.            *)
OnlyIn(seq, S) ==
    LET Of[i \in 0..Len(seq)] ==
            IF i = 0 THEN << >>
            ELSE IF seq[i] \in S THEN Append(Of[i - 1], seq[i]) ELSE Of[i - 1]
    IN  Of[Len(seq)]

(* start and all that is reached from it; next[x] is what x leads to in one  *)
(* step, and at most DOMAIN next leads on.                                   *)
Reach(start, next) ==
    LET Up[d \in 0..Cardinality(DOMAIN next)] ==
            IF d = 0 THEN start
            ELSE Up[d - 1] \cup UNION {next[x] : x \in Up[d - 1] \cap DOMAIN next}
    IN  Up[Cardinality(DOMAIN next)]
=============================================================================
