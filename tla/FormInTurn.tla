----------------------------- MODULE FormInTurn -----------------------------
(***************************************************************************)
(* The handlers of a form's events one after the other, as the browser     *)
(* runs them: each judges its own field, on what the one before it left.   *)
(* ContactForm has an event as one update of all the fields; this is the   *)
(* reference that it is compared with.                                     *)
(***************************************************************************)
EXTENDS ContactForm

\* The handler of an event on one field; the last one wins the success.
Mark(d, f, submitting) ==
  [Ask(d, {f}, FALSE) EXCEPT
     !.mark = [g \in AllFields |-> IF g = f THEN Verdict(d, f, submitting)
                                   ELSE WithoutSuccess(@[g])]]

\* The fields that are compared with it hear of its event before it does.
CompareInTurn(d, f) ==
  FoldLeft(LAMBDA acc, g : Mark(acc, g, TRUE), d,
           SelectSeq(Fields, LAMBDA g : g \in Compared(f)))
ChangeInTurn(d, f, submitting) == Mark(CompareInTurn(d, f), f, submitting)

\* The form's submission, and the collection of its errors.
JudgeInTurn(d) == LostFocus(FoldLeft(LAMBDA acc, f : ChangeInTurn(acc, f, TRUE), d, Fields))
CollectInTurn(d) ==
  FoldLeft(LAMBDA acc, f : Ask(CompareInTurn(acc, f), {f}, TRUE), d, Fields)

-----------------------------------------------------------------------------
(* Forms to compare on: any values, any state of the checks, equal marks.  *)
Known(f) ==
  {c \in [lastValue : Values \cup {Empty}, lastValid : BOOLEAN, lastFinished : BOOLEAN] :
     /\ c.lastValid \/ c.lastFinished
     /\ Checks(f) = {} => c.lastValue = Empty /\ c.lastValid /\ c.lastFinished}

Forms ==
  {[value |-> v, mark |-> [f \in AllFields |-> m], check |-> c,
    asked |-> {}, retrigger |-> {}, failed |-> {}] :
     v \in [AllFields -> Values \cup {Empty}],
     m \in {"none", "success", "warning", "error"},
     c \in {c \in [AllFields -> UNION {Known(f) : f \in AllFields}] :
              \A f \in AllFields : c[f] \in Known(f)}}

(* What an event leaves does not depend on the order the fields are judged *)
(* in: the handlers in turn mark and ask about the same fields as judged   *)
(* all at once (the handlers change.validation, submit.validation,         *)
(* validation.validation).                                                 *)
InTurnAsAtOnce(d) ==
  /\ \A f \in AllFields, submitting \in BOOLEAN :
       Change(d, f, submitting) = ChangeInTurn(d, f, submitting)
  /\ JudgeAll(d) = JudgeInTurn(d)
  /\ CollectErrors(LostFocus(d)) = CollectInTurn(LostFocus(d))
=============================================================================
