-------------------------- MODULE ContactFormProofs --------------------------
(***************************************************************************)
(* Proofs about ContactForm, for every form, its rules and every bound.    *)
(***************************************************************************)
EXTENDS ContactForm, TLAPS

FormFields == {"value", "mark", "check", "asked", "retrigger", "failed"}
IsForm(d) == d = [field \in FormFields |-> d[field]]
IsCheck(c) == c = [field \in {"lastValue", "lastValid", "lastFinished"} |-> c[field]]
Marks == {"none", "success", "warning", "error"}

\* A form n that differs from d in some of its parts at most.
Differs(n, d, parts) ==
  /\ IsForm(n)
  /\ \A field \in FormFields \ parts : n[field] = d[field]

\* A finished check tells what its server says of the value it knows.
IsKnown(f, c) ==
  c.lastFinished /\ c.lastValue # Empty => (c.lastValid <=> ~Rejects(f, c.lastValue))

(* At most one answer is awaited for a field, the one to the value its     *)
(* check knows; none where a call failed.                                  *)
ChecksOK(d) ==
  /\ IsForm(d)
  /\ d.value \in [AllFields -> Values \cup {Empty}]
  /\ d.check = [f \in AllFields |-> d.check[f]]
  /\ d.asked \subseteq AllFields \X (Values \cup {Empty})
  /\ d.retrigger \subseteq {f \in AllFields : Checks(f) # {}}
  /\ d.failed \subseteq {f \in AllFields : Checks(f) # {}}
  /\ \A f \in AllFields :
       /\ IsCheck(d.check[f]) /\ d.check[f].lastFinished \in BOOLEAN
       /\ d.check[f].lastFinished <=> f \notin d.failed /\ \A a \in d.asked : a[1] # f
  /\ \A a \in d.asked : /\ Checks(a[1]) # {} /\ a[1] \notin d.failed
                        /\ a[2] = d.check[a[1]].lastValue
  /\ \A f \in AllFields : IsKnown(f, d.check[f])

\* The mark of a field belongs to the values of the form.
IsCurrent(d, f) ==
  d.value[f] # Empty /\ Checks(f) = {} =>
    (d.mark[f] \in {"warning", "error"} <=> BrokenRules(d.value, f, FALSE) # {})

MarksOK(d, stale) ==
  /\ d.mark \in [AllFields -> Marks]
  /\ \A f \in AllFields \ stale : IsCurrent(d, f)

\* The fields some marks of which may be stale, those no event has judged, apart.
FormOK(d, stale) == ChecksOK(d) /\ MarksOK(d, stale)

FormInv ==
  /\ FormOK(form, unseen)
  /\ unseen \subseteq AllFields
  /\ mails \in 0 .. MaxMails
  /\ box \in {"none", "sent", "failed"}

-----------------------------------------------------------------------------
(* What an event is made of.                                               *)

(* Fields are asked about that have a check without an answer to come.     *)
LEMMA AskKeeps ==
  ASSUME NEW d, ChecksOK(d), NEW some, some \subseteq AllFields, NEW includeEmpty
  PROVE  LET n == Ask(d, some, includeEmpty)
         IN  /\ ChecksOK(n) /\ Differs(n, d, {"check", "asked"})
             /\ n.value = d.value /\ n.mark = d.mark
<1>. DEFINE new == {f \in some : /\ d.check[f].lastFinished
                                 /\ d.check[f].lastValue # d.value[f]
                                 /\ includeEmpty \/ d.value[f] # Empty
                                 /\ Checks(f) # {}}
            n == AskAbout(d, new)
            known(f) == [lastValue |-> d.value[f], lastValid |-> TRUE, lastFinished |-> FALSE]
<1>1. n = Ask(d, some, includeEmpty)
  BY DEF Ask
<1>2. \A f \in new : f \in AllFields /\ Checks(f) # {} /\ d.check[f].lastFinished
  OBVIOUS
<1>. HIDE DEF new
<1>3. /\ Differs(n, d, {"check", "asked"})
      /\ n.check = [f \in AllFields |-> IF f \in new THEN known(f) ELSE d.check[f]]
      /\ n.asked = d.asked \cup {<<f, d.value[f]>> : f \in new}
  BY DEF AskAbout, ChecksOK, IsForm, FormFields, Differs
<1>4. /\ n.value = d.value /\ n.mark = d.mark /\ n.retrigger = d.retrigger
      /\ n.failed = d.failed
  BY <1>3 DEF Differs, FormFields
<1>. HIDE DEF n
<1>5. \A f \in AllFields : /\ IsCheck(n.check[f]) /\ n.check[f].lastFinished \in BOOLEAN
                           /\ f \in new => /\ n.check[f].lastValue = d.value[f]
                                           /\ n.check[f].lastFinished = FALSE
                           /\ f \notin new => n.check[f] = d.check[f]
  <2>. SUFFICES ASSUME NEW f \in AllFields
                PROVE  /\ IsCheck(n.check[f]) /\ n.check[f].lastFinished \in BOOLEAN
                       /\ f \in new => /\ n.check[f].lastValue = d.value[f]
                                       /\ n.check[f].lastFinished = FALSE
                       /\ f \notin new => n.check[f] = d.check[f]
    OBVIOUS
  <2>1. IsCheck(known(f)) /\ known(f).lastValue = d.value[f] /\ known(f).lastFinished = FALSE
    BY DEF IsCheck
  <2>2. n.check[f] = IF f \in new THEN known(f) ELSE d.check[f]
    BY <1>3
  <2>. HIDE DEF known
  <2>. QED
    BY <2>1, <2>2 DEF ChecksOK
<1>6. \A f \in new : f \notin d.failed /\ \A a \in d.asked : a[1] # f
  BY <1>2 DEF ChecksOK
<1>7. \A a \in n.asked : a \in d.asked \/ \E f \in new : a = <<f, d.value[f]>>
  BY <1>3
<1>8. n.asked \subseteq AllFields \X (Values \cup {Empty})
  <2>1. \A f \in new : <<f, d.value[f]>> \in AllFields \X (Values \cup {Empty})
    BY <1>2 DEF ChecksOK
  <2>2. d.asked \subseteq AllFields \X (Values \cup {Empty})
    BY DEF ChecksOK
  <2>. QED
    BY <1>7, <2>1, <2>2
<1>9. \A a \in n.asked : /\ Checks(a[1]) # {} /\ a[1] \notin n.failed
                         /\ a[2] = n.check[a[1]].lastValue
  <2>. SUFFICES ASSUME NEW a \in n.asked
                PROVE  /\ Checks(a[1]) # {} /\ a[1] \notin n.failed
                       /\ a[2] = n.check[a[1]].lastValue
    OBVIOUS
  <2>1. CASE a \in d.asked
    <3>1. a[1] \in AllFields /\ a[1] \notin new
      BY <1>6, <2>1 DEF ChecksOK
    <3>. QED
      BY <1>4, <1>5, <2>1, <3>1 DEF ChecksOK
  <2>2. CASE \E f \in new : a = <<f, d.value[f]>>
    BY <1>2, <1>4, <1>5, <1>6, <2>2
  <2>. QED
    BY <1>7, <2>1, <2>2
<1>10. \A f \in AllFields :
         n.check[f].lastFinished <=> f \notin n.failed /\ \A a \in n.asked : a[1] # f
  <2>. SUFFICES ASSUME NEW f \in AllFields
                PROVE  n.check[f].lastFinished <=>
                         f \notin n.failed /\ \A a \in n.asked : a[1] # f
    OBVIOUS
  <2>1. CASE f \in new
    <3>1. <<f, d.value[f]>> \in n.asked /\ <<f, d.value[f]>>[1] = f
      BY <1>3, <2>1
    <3>. QED
      BY <1>5, <2>1, <3>1
  <2>2. CASE f \notin new
    <3>1. (\A a \in n.asked : a[1] # f) <=> (\A a \in d.asked : a[1] # f)
      BY <1>3, <1>7, <2>2
    <3>. QED
      BY <1>4, <1>5, <2>2, <3>1 DEF ChecksOK
  <2>. QED
    BY <2>1, <2>2
<1>11. ChecksOK(n)
  <2>1. n.check = [f \in AllFields |-> n.check[f]]
    BY <1>3
  <2>2. \A f \in AllFields : IsKnown(f, n.check[f])
    BY <1>5 DEF ChecksOK, IsKnown
  <2>. QED
    BY <1>3, <1>4, <1>5, <1>8, <1>9, <1>10, <2>1, <2>2 DEF ChecksOK, Differs
<1>. QED
  BY <1>1, <1>3, <1>4, <1>11 DEF n

(* A check that is finished after its field was asked about knows the value.*)
LEMMA AskTells ==
  ASSUME NEW d, ChecksOK(d), NEW some, some \subseteq AllFields, NEW includeEmpty,
         NEW f \in some, Checks(f) # {}, d.value[f] # Empty,
         Ask(d, some, includeEmpty).check[f].lastFinished
  PROVE  d.check[f].lastFinished /\ d.check[f].lastValue = d.value[f]
<1>. DEFINE new == {g \in some : /\ d.check[g].lastFinished
                                 /\ d.check[g].lastValue # d.value[g]
                                 /\ includeEmpty \/ d.value[g] # Empty
                                 /\ Checks(g) # {}}
            known(g) == [lastValue |-> d.value[g], lastValid |-> TRUE, lastFinished |-> FALSE]
<1>1. \/ f \in new
      \/ ~d.check[f].lastFinished
      \/ d.check[f].lastValue = d.value[f]
  OBVIOUS
<1>2. Ask(d, some, includeEmpty) = AskAbout(d, new)
  BY DEF Ask
<1>. HIDE DEF new
<1>3. AskAbout(d, new).check = [g \in AllFields |-> IF g \in new THEN known(g) ELSE d.check[g]]
  BY DEF AskAbout, ChecksOK, IsForm, FormFields
<1>4. AskAbout(d, new).check[f] = IF f \in new THEN known(f) ELSE d.check[f]
  BY <1>3
<1>5. f \notin new /\ d.check[f].lastFinished
  BY <1>2, <1>4
<1>. QED
  BY <1>1, <1>5

(* Marks are no matter to the checks.                                      *)
LEMMA MarkingKeeps ==
  ASSUME NEW d, ChecksOK(d), NEW marks
  PROVE  LET n == [d EXCEPT !.mark = marks]
         IN  ChecksOK(n) /\ n.mark = marks /\ n.value = d.value /\ n.check = d.check
<1>. DEFINE n == [d EXCEPT !.mark = marks]
<1>1. /\ IsForm(n) /\ n.mark = marks /\ n.value = d.value /\ n.check = d.check
      /\ n.asked = d.asked /\ n.retrigger = d.retrigger /\ n.failed = d.failed
  BY DEF ChecksOK, IsForm, FormFields
<1>. HIDE DEF n
<1>2. ChecksOK(n)
  BY <1>1 DEF ChecksOK
<1>. QED
  BY <1>1, <1>2 DEF n

(* A verdict on a field that is filled in and has no check is the one of   *)
(* its rules, submitted or not.                                            *)
LEMMA VerdictIsCurrent ==
  ASSUME NEW d, NEW f, NEW submitting
  PROVE  /\ Verdict(d, f, submitting) \in Marks
         /\ WithoutSuccess(Verdict(d, f, submitting)) \in Marks
         /\ d.value[f] # Empty /\ Checks(f) = {} =>
              /\ Verdict(d, f, submitting) \in {"warning", "error"}
                   <=> BrokenRules(d.value, f, FALSE) # {}
              /\ WithoutSuccess(Verdict(d, f, submitting)) \in {"warning", "error"}
                   <=> BrokenRules(d.value, f, FALSE) # {}
<1>1. ASSUME d.value[f] # Empty
      PROVE  BrokenRules(d.value, f, submitting) = BrokenRules(d.value, f, FALSE)
  BY <1>1 DEF BrokenRules, IsJudged
<1>2. Checks(f) = {} => ~IsRejected(d, f)
  BY DEF IsRejected
<1>. QED
  BY <1>1, <1>2 DEF Verdict, WithoutSuccess, Marks

(* A success that is lost makes no mark come or go.                        *)
LEMMA LosingIsCurrent ==
  ASSUME NEW mark \in Marks
  PROVE  /\ WithoutSuccess(mark) \in Marks
         /\ WithoutSuccess(mark) \in {"warning", "error"} <=> mark \in {"warning", "error"}
BY DEF WithoutSuccess, Marks

(* The rules of a field look at its value and that of the field it is      *)
(* compared with.                                                          *)
LEMMA OthersUnmoved ==
  ASSUME NEW values, NEW new, NEW f \in AllFields, NEW g \in AllFields,
         g # f, g \notin Compared(f),
         \A k \in AllFields \ {f} : new[k] = values[k]
  PROVE  BrokenRules(new, g, FALSE) = BrokenRules(values, g, FALSE)
<1>1. new[g] = values[g]
  OBVIOUS
<1>2. ASSUME NEW rule \in Rules(g)
      PROVE  Breaks(new, g, rule) = Breaks(values, g, rule)
  <2>1. CASE TypeOf(rule) = "match"
    <3>1. rule \in RulesOfType(g, {"match"})
      BY <2>1 DEF RulesOfType
    <3>2. Other[g] \in AllFields /\ Other[g] # f
      BY <3>1, NoChain DEF Compared, MustMatch
    <3>. QED
      BY <1>1, <2>1, <3>2 DEF Breaks
  <2>2. CASE TypeOf(rule) # "match"
    BY <1>1, <2>2 DEF Breaks
  <2>. QED
    BY <2>1, <2>2
<1>. QED
  BY <1>1, <1>2 DEF BrokenRules

(* An event on a field brings its mark up to date, and the marks of those  *)
(* that are compared with it.                                              *)
LEMMA ChangeKeeps ==
  ASSUME NEW d, ChecksOK(d), d.mark \in [AllFields -> Marks],
         NEW f \in AllFields, NEW submitting, NEW stale,
         \A g \in AllFields \ ({f} \cup Compared(f) \cup stale) : IsCurrent(d, g)
  PROVE  FormOK(Change(d, f, submitting), stale \ ({f} \cup Compared(f)))
<1>. DEFINE asked == Ask(d, {f} \cup Compared(f), FALSE)
            marks == [g \in AllFields |->
                        IF g = f THEN Verdict(d, f, submitting)
                        ELSE WithoutSuccess(IF g \in Compared(f) THEN Verdict(d, g, TRUE)
                                            ELSE d.mark[g])]
            n == [asked EXCEPT !.mark = marks]
<1>1. Compared(f) \subseteq AllFields
  BY DEF Compared
<1>2. ChecksOK(asked) /\ asked.value = d.value /\ asked.mark = d.mark
  BY <1>1, AskKeeps
<1>. HIDE DEF asked
<1>3. n = Change(d, f, submitting)
  BY <1>2 DEF Change, asked
<1>. HIDE DEF marks
<1>4. ChecksOK(n) /\ n.mark = marks /\ n.value = d.value
  BY <1>2, MarkingKeeps
<1>. HIDE DEF n
<1>5. ASSUME NEW g \in AllFields
      PROVE  /\ n.mark[g] \in Marks
             /\ g \notin stale \ ({f} \cup Compared(f)) => IsCurrent(n, g)
  <2>1. CASE g = f
    <3>1. n.mark[g] = Verdict(d, f, submitting)
      BY <1>4, <2>1 DEF marks
    <3>. QED
      BY <1>4, <2>1, <3>1, VerdictIsCurrent DEF IsCurrent
  <2>2. CASE g # f /\ g \in Compared(f)
    <3>1. n.mark[g] = WithoutSuccess(Verdict(d, g, TRUE))
      BY <1>4, <2>2 DEF marks
    <3>. QED
      BY <1>4, <3>1, VerdictIsCurrent DEF IsCurrent
  <2>3. CASE g # f /\ g \notin Compared(f)
    <3>1. n.mark[g] = WithoutSuccess(d.mark[g]) /\ d.mark[g] \in Marks
      BY <1>4, <2>3 DEF marks
    <3>2. g \notin stale => IsCurrent(d, g)
      BY <2>3
    <3>3. /\ n.mark[g] \in Marks
          /\ n.mark[g] \in {"warning", "error"} <=> d.mark[g] \in {"warning", "error"}
      BY <3>1, LosingIsCurrent
    <3>. QED
      BY <1>4, <2>3, <3>2, <3>3 DEF IsCurrent
  <2>. QED
    BY <2>1, <2>2, <2>3
<1>6. n.mark \in [AllFields -> Marks]
  BY <1>4, <1>5 DEF marks
<1>. QED
  BY <1>3, <1>4, <1>5, <1>6 DEF FormOK, MarksOK

(* Losing the focus keeps every mark but a success.                        *)
LEMMA LostFocusKeeps ==
  ASSUME NEW d, NEW stale, FormOK(d, stale)
  PROVE  FormOK(LostFocus(d), stale)
<1>. DEFINE marks == [f \in AllFields |-> WithoutSuccess(d.mark[f])]
            n == [d EXCEPT !.mark = marks]
<1>1. n = LostFocus(d)
  BY DEF LostFocus
<1>2. ChecksOK(n) /\ n.mark = marks /\ n.value = d.value
  BY MarkingKeeps DEF FormOK
<1>. HIDE DEF n
<1>3. ASSUME NEW f \in AllFields
      PROVE  n.mark[f] \in Marks /\ (f \notin stale => IsCurrent(n, f))
  <2>1. /\ n.mark[f] = WithoutSuccess(d.mark[f]) /\ d.mark[f] \in Marks
        /\ f \notin stale => IsCurrent(d, f)
    BY <1>2 DEF FormOK, MarksOK
  <2>2. /\ n.mark[f] \in Marks
        /\ n.mark[f] \in {"warning", "error"} <=> d.mark[f] \in {"warning", "error"}
    BY <2>1, LosingIsCurrent
  <2>. QED
    BY <1>2, <2>1, <2>2 DEF IsCurrent
<1>. QED
  BY <1>1, <1>2, <1>3 DEF FormOK, MarksOK

-----------------------------------------------------------------------------
(* Submitting.                                                             *)

(* Judging all the fields brings every mark up to date.                    *)
LEMMA JudgeAllKeeps ==
  ASSUME NEW d, ChecksOK(d)
  PROVE  LET n == JudgeAll(d)
         IN  /\ FormOK(n, {}) /\ n.value = d.value
             /\ \A f \in AllFields : n.mark[f] = WithoutSuccess(Verdict(d, f, TRUE))
             /\ \A f \in AllFields :
                  n.check[f].lastFinished /\ Checks(f) # {} /\ d.value[f] # Empty =>
                    d.check[f].lastFinished /\ d.check[f].lastValue = d.value[f]
<1>. DEFINE asked == Ask(d, AllFields, FALSE)
            marks == [f \in AllFields |-> WithoutSuccess(Verdict(d, f, TRUE))]
            n == [asked EXCEPT !.mark = marks]
<1>1. /\ ChecksOK(asked) /\ asked.value = d.value
      /\ \A f \in AllFields :
           asked.check[f].lastFinished /\ Checks(f) # {} /\ d.value[f] # Empty =>
             d.check[f].lastFinished /\ d.check[f].lastValue = d.value[f]
  <2>1. ChecksOK(asked) /\ asked.value = d.value
    BY AskKeeps
  <2>2. ASSUME NEW f \in AllFields, asked.check[f].lastFinished, Checks(f) # {},
               d.value[f] # Empty
        PROVE  d.check[f].lastFinished /\ d.check[f].lastValue = d.value[f]
    BY <2>2, AskTells
  <2>. QED
    BY <2>1, <2>2
<1>2. n = JudgeAll(d)
  BY DEF JudgeAll
<1>. HIDE DEF asked
<1>3. ChecksOK(n) /\ n.mark = marks /\ n.value = d.value /\ n.check = asked.check
  BY <1>1, MarkingKeeps
<1>. HIDE DEF n
<1>4. ASSUME NEW f \in AllFields
      PROVE  n.mark[f] \in Marks /\ IsCurrent(n, f)
  <2>1. n.mark[f] = WithoutSuccess(Verdict(d, f, TRUE))
    BY <1>3
  <2>2. /\ n.mark[f] \in Marks
        /\ d.value[f] # Empty /\ Checks(f) = {} =>
             (n.mark[f] \in {"warning", "error"} <=> BrokenRules(d.value, f, FALSE) # {})
    BY <2>1, VerdictIsCurrent
  <2>. QED
    BY <1>3, <2>2 DEF IsCurrent
<1>. QED
  BY <1>1, <1>2, <1>3, <1>4 DEF FormOK, MarksOK

(* A warning may become an error.                                          *)
LEMMA ErrorsKeep ==
  ASSUME NEW d, FormOK(d, {}), NEW wrong, wrong = {f \in AllFields : d.mark[f] = "warning"}
  PROVE  FormOK([d EXCEPT !.mark = [f \in AllFields |-> IF f \in wrong THEN "error" ELSE @[f]]], {})
<1>. DEFINE marks == [f \in AllFields |-> IF f \in wrong THEN "error" ELSE d.mark[f]]
            n == [d EXCEPT !.mark = marks]
<1>1. ChecksOK(n) /\ n.mark = marks /\ n.value = d.value
  BY MarkingKeeps DEF FormOK
<1>. HIDE DEF n
<1>2. ASSUME NEW f \in AllFields
      PROVE  n.mark[f] \in Marks /\ IsCurrent(n, f)
  <2>1. n.mark[f] = (IF d.mark[f] = "warning" THEN "error" ELSE d.mark[f])
        /\ d.mark[f] \in Marks /\ IsCurrent(d, f)
    BY <1>1 DEF FormOK, MarksOK
  <2>. QED
    BY <1>1, <2>1 DEF IsCurrent, Marks
<1>3. FormOK(n, {})
  BY <1>1, <1>2 DEF FormOK, MarksOK
<1>. QED
  BY <1>3 DEF n

(* Collecting the errors judges some of the fields again.                  *)
LEMMA CollectKeeps ==
  ASSUME NEW d, FormOK(d, {})
  PROVE  FormOK(CollectErrors(d), {})
<1>. DEFINE asked == Ask(d, AllFields, TRUE)
            marks == [f \in AllFields |->
                        IF ~MustMatch(f) THEN d.mark[f]
                        ELSE IF JudgedLast(f) THEN Verdict(d, f, TRUE)
                        ELSE WithoutSuccess(Verdict(d, f, TRUE))]
            n == [asked EXCEPT !.mark = marks]
<1>1. ChecksOK(asked) /\ asked.value = d.value /\ asked.mark = d.mark
  BY AskKeeps DEF FormOK
<1>2. n = CollectErrors(d)
  BY <1>1 DEF CollectErrors
<1>. HIDE DEF asked
<1>3. ChecksOK(n) /\ n.mark = marks /\ n.value = d.value
  BY <1>1, MarkingKeeps
<1>. HIDE DEF n
<1>4. ASSUME NEW f \in AllFields
      PROVE  n.mark[f] \in Marks /\ IsCurrent(n, f)
  <2>1. d.mark[f] \in Marks /\ IsCurrent(d, f)
    BY DEF FormOK, MarksOK
  <2>2. \/ n.mark[f] = d.mark[f]
        \/ n.mark[f] = Verdict(d, f, TRUE)
        \/ n.mark[f] = WithoutSuccess(Verdict(d, f, TRUE))
    BY <1>3
  <2>3. CASE n.mark[f] = d.mark[f]
    BY <1>3, <2>1, <2>3 DEF IsCurrent
  <2>4. CASE n.mark[f] # d.mark[f]
    <3>1. /\ n.mark[f] \in Marks
          /\ d.value[f] # Empty /\ Checks(f) = {} =>
               (n.mark[f] \in {"warning", "error"} <=> BrokenRules(d.value, f, FALSE) # {})
      BY <2>2, <2>4, VerdictIsCurrent
    <3>. QED
      BY <1>3, <3>1 DEF IsCurrent
  <2>. QED
    BY <2>3, <2>4
<1>5. n.mark \in [AllFields -> Marks]
  BY <1>3, <1>4
<1>. QED
  BY <1>2, <1>3, <1>4, <1>5 DEF FormOK, MarksOK

(* A form without a warning breaks no rule that a submission judges, and   *)
(* holds no value that a check has rejected.                               *)
LEMMA JudgedRight ==
  ASSUME NEW d, NEW f, WithoutSuccess(Verdict(d, f, TRUE)) # "warning"
  PROVE  /\ ~IsRejected(d, f)
         /\ \A rule \in Rules(f) :
              TypeOf(rule) \in BlockSubmit \/ d.value[f] # Empty => ~Breaks(d.value, f, rule)
<1>1. BrokenRules(d.value, f, TRUE) = {} /\ ~IsRejected(d, f)
  BY DEF Verdict, WithoutSuccess
<1>. QED
  BY <1>1 DEF BrokenRules, IsJudged

-----------------------------------------------------------------------------
(* The steps.                                                              *)

(* An empty form has no marks and awaits no answer.                        *)
LEMMA FormInit == Init => FormInv
<1>. SUFFICES ASSUME Init
              PROVE  FormInv
  OBVIOUS
<1>. DEFINE known == [lastValue |-> Empty, lastValid |-> TRUE, lastFinished |-> TRUE]
<1>1. /\ IsForm(form) /\ form.value = [f \in AllFields |-> Empty]
      /\ form.mark = [f \in AllFields |-> "none"]
      /\ form.check = [f \in AllFields |-> known]
      /\ form.asked = {} /\ form.retrigger = {} /\ form.failed = {}
  BY DEF Init, IsForm, FormFields
<1>2. IsCheck(known) /\ known.lastFinished = TRUE /\ known.lastValue = Empty
  BY DEF IsCheck
<1>. HIDE DEF known
<1>3. ChecksOK(form)
  <2>1. \A f \in AllFields : form.check[f] = known
    BY <1>1
  <2>2. \A f \in AllFields : IsKnown(f, form.check[f])
    BY <1>2, <2>1 DEF IsKnown
  <2>. QED
    BY <1>1, <1>2, <2>1, <2>2 DEF ChecksOK
<1>4. MarksOK(form, unseen)
  BY <1>1 DEF MarksOK, IsCurrent, Marks
<1>. QED
  BY <1>3, <1>4, Bounds DEF Init, FormInv, FormOK

(* Typing: whatever is compared with the field is judged again.            *)
LEMMA TypeKeeps ==
  ASSUME FormInv, NEW f \in AllFields, NEW value \in Values \cup {Empty}, Type(f, value)
  PROVE  FormInv'
<1>. DEFINE d == [form EXCEPT !.value[f] = value]
<1>1. ChecksOK(form) /\ MarksOK(form, unseen) /\ form.value \in [AllFields -> Values \cup {Empty}]
  BY DEF FormInv, FormOK, ChecksOK
<1>2. /\ IsForm(d) /\ d.value = [form.value EXCEPT ![f] = value]
      /\ d.mark = form.mark /\ d.check = form.check /\ d.asked = form.asked
      /\ d.retrigger = form.retrigger /\ d.failed = form.failed
  BY <1>1 DEF ChecksOK, IsForm, FormFields
<1>3. /\ form' = Change(d, f, FALSE) /\ UNCHANGED <<mails, box>>
      /\ unseen' = unseen \ ({f} \cup Compared(f))
  BY DEF Type, Becomes, Judges
<1>. HIDE DEF d
<1>4. d.value \in [AllFields -> Values \cup {Empty}]
  BY <1>1, <1>2
<1>5. ChecksOK(d)
  BY <1>1, <1>2, <1>4 DEF ChecksOK
<1>6. ASSUME NEW g \in AllFields, g # f, g \notin Compared(f), g \notin unseen
      PROVE  IsCurrent(d, g)
  <2>. DEFINE new == d.value
              old == form.value
  <2>1. g # f /\ g \notin Compared(f) /\ IsCurrent(form, g)
    BY <1>1, <1>6 DEF MarksOK
  <2>2. new[g] = old[g] /\ \A k \in AllFields \ {f} : new[k] = old[k]
    BY <1>1, <1>2, <2>1
  <2>. HIDE DEF new, old
  <2>3. BrokenRules(new, g, FALSE) = BrokenRules(old, g, FALSE)
    BY <2>1, <2>2, OthersUnmoved
  <2>. QED
    BY <1>2, <2>1, <2>2, <2>3 DEF IsCurrent, new, old
<1>7. FormOK(Change(d, f, FALSE), unseen \ ({f} \cup Compared(f)))
  BY <1>1, <1>2, <1>5, <1>6, ChangeKeeps DEF MarksOK
<1>. QED
  BY <1>3, <1>7 DEF FormInv

(* A change without an event makes no mark stale but its own and those of  *)
(* the fields that are compared with it.                                   *)
LEMMA PasteKeeps ==
  ASSUME FormInv, NEW f \in AllFields, NEW value \in Values \cup {Empty}, Paste(f, value)
  PROVE  FormInv'
<1>1. ChecksOK(form) /\ MarksOK(form, unseen) /\ form.value \in [AllFields -> Values \cup {Empty}]
  BY DEF FormInv, FormOK, ChecksOK
<1>2. /\ IsForm(form') /\ form'.value = [form.value EXCEPT ![f] = value]
      /\ form'.mark = form.mark /\ form'.check = form.check /\ form'.asked = form.asked
      /\ form'.retrigger = form.retrigger /\ form'.failed = form.failed
  BY <1>1 DEF Paste, Becomes, ChecksOK, IsForm, FormFields
<1>3. unseen' = unseen \cup {f} \cup Compared(f) /\ UNCHANGED <<mails, box>>
  BY DEF Paste
<1>4. ChecksOK(form')
  <2>1. form'.value \in [AllFields -> Values \cup {Empty}]
    BY <1>1, <1>2
  <2>. QED
    BY <1>1, <1>2, <2>1 DEF ChecksOK
<1>5. ASSUME NEW g \in AllFields \ unseen'
      PROVE  IsCurrent(form', g)
  <2>. DEFINE new == form'.value
              old == form.value
  <2>1. g \in AllFields /\ g # f /\ g \notin Compared(f) /\ IsCurrent(form, g)
    BY <1>1, <1>3 DEF MarksOK
  <2>2. new[g] = old[g] /\ \A k \in AllFields \ {f} : new[k] = old[k]
    BY <1>1, <1>2, <2>1
  <2>. HIDE DEF new, old
  <2>3. BrokenRules(new, g, FALSE) = BrokenRules(old, g, FALSE)
    BY <2>1, <2>2, OthersUnmoved
  <2>. QED
    BY <1>2, <2>1, <2>2, <2>3 DEF IsCurrent, new, old
<1>6. MarksOK(form', unseen')
  BY <1>1, <1>2, <1>5 DEF MarksOK
<1>. QED
  BY <1>3, <1>4, <1>6 DEF FormInv, FormOK, Compared

(* The focus comes and goes.                                               *)
LEMMA FocusKeeps ==
  ASSUME FormInv, NEW f \in AllFields, Focus(f) \/ Blur(f)
  PROVE  FormInv'
<1>. DEFINE stale == unseen \ ({f} \cup Compared(f))
<1>1. FormOK(Change(form, f, FALSE), stale)
  BY ChangeKeeps DEF FormInv, FormOK, MarksOK
<1>2. FormOK(LostFocus(Change(form, f, FALSE)), stale)
  BY <1>1, LostFocusKeeps
<1>3. form' = Change(form, f, FALSE) \/ form' = LostFocus(Change(form, f, FALSE))
  BY DEF Focus, Blur, Becomes
<1>4. mails' = mails /\ box' \in {"none", "sent", "failed"} /\ unseen' = stale
  BY DEF Focus, Blur, FormInv, Judges
<1>. QED
  BY <1>1, <1>2, <1>3, <1>4 DEF FormInv

(* The submit handler, whether it sends or shows what is wrong.            *)
LEMMA SubmitKeeps ==
  ASSUME FormInv, Submit
  PROVE  FormInv'
<1>. DEFINE judged == JudgeAll(form)
            wrong == {f \in AllFields : judged.mark[f] = "warning"}
            new == [judged EXCEPT !.mark =
                      [f \in AllFields |-> IF f \in wrong THEN "error" ELSE @[f]]]
<1>1. FormOK(judged, {})
  BY JudgeAllKeeps DEF FormInv, FormOK
<1>2. \/ form' = CollectErrors(new) /\ UNCHANGED mails
      \/ form' = judged /\ mails < MaxMails /\ mails' = mails + 1
  BY DEF Submit, Becomes
<1>3. box' = box /\ unseen' = {}
  BY DEF Submit
<1>. HIDE DEF judged
<1>4. FormOK(new, {})
  BY <1>1, ErrorsKeep
<1>. HIDE DEF new
<1>5. FormOK(CollectErrors(new), {})
  BY <1>4, CollectKeeps
<1>6. FormOK(form', {})
  BY <1>1, <1>2, <1>5
<1>7. mails' \in 0 .. MaxMails
  BY <1>2, Bounds DEF FormInv
<1>. QED
  BY <1>3, <1>6, <1>7 DEF FormInv

(* A message is answered, and the form cleared.                            *)
LEMMA AnsweredKeeps ==
  ASSUME FormInv, Answered
  PROVE  FormInv'
<1>1. ChecksOK(form) /\ MarksOK(form, unseen)
  BY DEF FormInv, FormOK
<1>2. /\ IsForm(form') /\ form'.value = [f \in AllFields |-> Empty]
      /\ form'.mark = form.mark /\ form'.check = form.check /\ form'.asked = form.asked
      /\ form'.retrigger = form.retrigger /\ form'.failed = form.failed
  BY <1>1 DEF Answered, ChecksOK, IsForm, FormFields
<1>3. ChecksOK(form')
  BY <1>1, <1>2 DEF ChecksOK
<1>4. MarksOK(form', {})
  BY <1>1, <1>2 DEF MarksOK, IsCurrent
<1>5. mails' \in 0 .. MaxMails /\ box' \in {"none", "sent", "failed"} /\ unseen' = {}
  BY Bounds DEF FormInv, Answered
<1>. QED
  BY <1>3, <1>4, <1>5 DEF FormInv, FormOK

(* An answer is always about the value asked last.                         *)
LEMMA CheckAnsweredKeeps ==
  ASSUME FormInv, NEW a \in form.asked, CheckAnswered(a[1], a[2])
  PROVE  FormInv'
<1>1. ChecksOK(form) /\ MarksOK(form, unseen)
  BY DEF FormInv, FormOK
<1>. DEFINE f == a[1]
            valid == ~Rejects(f, a[2])
            heard == [form EXCEPT !.asked = @ \ {<<a[1], a[2]>>}]
            n == [heard EXCEPT !.check[f].lastValid = valid, !.check[f].lastFinished = TRUE,
                               !.retrigger = @ \cup {f}]
<1>2. /\ f \in AllFields /\ a = <<a[1], a[2]>> /\ Checks(f) # {} /\ f \notin form.failed
      /\ a[2] = form.check[f].lastValue
  BY <1>1 DEF ChecksOK
<1>3. form' = n /\ UNCHANGED <<mails, box, unseen>>
  BY <1>2 DEF CheckAnswered, Becomes
<1>4. /\ IsForm(heard) /\ heard.asked = form.asked \ {a}
      /\ heard.value = form.value /\ heard.mark = form.mark /\ heard.check = form.check
      /\ heard.retrigger = form.retrigger /\ heard.failed = form.failed
  BY <1>1, <1>2 DEF ChecksOK, IsForm, FormFields
<1>. HIDE DEF heard
<1>. DEFINE judged == [form.check[f] EXCEPT !.lastValid = valid]
            c == [judged EXCEPT !.lastFinished = TRUE]
            told == [heard EXCEPT !.check[f].lastValid = valid]
            done == [told EXCEPT !.check[f].lastFinished = TRUE]
<1>5. n = [done EXCEPT !.retrigger = @ \cup {f}]
  OBVIOUS
<1>. HIDE DEF n, valid
<1>6. /\ IsCheck(c) /\ c.lastFinished = TRUE /\ c.lastValue = form.check[f].lastValue
      /\ c.lastValid = valid
  <2>1. IsCheck(form.check[f])
    BY <1>1, <1>2 DEF ChecksOK
  <2>. QED
    BY <2>1 DEF IsCheck
<1>7. /\ IsForm(n) /\ n.asked = form.asked \ {a}
      /\ n.value = form.value /\ n.mark = form.mark
      /\ n.retrigger = form.retrigger \cup {f} /\ n.failed = form.failed
      /\ n.check = [g \in AllFields |-> n.check[g]]
      /\ \A g \in AllFields : n.check[g] = IF g = f THEN c ELSE form.check[g]
  <2>1. form.check = [g \in AllFields |-> form.check[g]]
    BY <1>1 DEF ChecksOK
  <2>2. /\ IsForm(told) /\ told.asked = heard.asked /\ told.value = heard.value
        /\ told.mark = heard.mark /\ told.retrigger = heard.retrigger
        /\ told.failed = heard.failed
        /\ told.check = [heard.check EXCEPT ![f] = [heard.check[f] EXCEPT !.lastValid = valid]]
    BY <1>4 DEF IsForm, FormFields
  <2>. HIDE DEF told, c
  <2>3. /\ IsForm(done) /\ done.asked = told.asked /\ done.value = told.value
        /\ done.mark = told.mark /\ done.retrigger = told.retrigger
        /\ done.failed = told.failed
        /\ done.check = [told.check EXCEPT ![f] = [told.check[f] EXCEPT !.lastFinished = TRUE]]
    BY <2>2 DEF IsForm, FormFields
  <2>. HIDE DEF done
  <2>4. /\ IsForm(n) /\ n.asked = done.asked /\ n.value = done.value
        /\ n.mark = done.mark /\ n.retrigger = done.retrigger \cup {f}
        /\ n.failed = done.failed /\ n.check = done.check
    BY <1>5, <2>3 DEF IsForm, FormFields
  <2>5. /\ told.check = [g \in AllFields |-> told.check[g]]
        /\ told.check[f] = judged
        /\ \A g \in AllFields \ {f} : told.check[g] = form.check[g]
    BY <1>2, <1>4, <2>1, <2>2
  <2>6. [told.check[f] EXCEPT !.lastFinished = TRUE] = c
    BY <2>5 DEF c
  <2>7. /\ done.check = [g \in AllFields |-> done.check[g]]
        /\ done.check[f] = c
        /\ \A g \in AllFields \ {f} : done.check[g] = form.check[g]
    BY <1>2, <2>3, <2>5, <2>6
  <2>. QED
    BY <1>4, <2>2, <2>3, <2>4, <2>7
<1>. HIDE DEF c
<1>8. \A b \in form.asked : b[1] = f => b = a
  <2>. SUFFICES ASSUME NEW b \in form.asked, b[1] = f
                PROVE  b = a
    OBVIOUS
  <2>1. b = <<b[1], b[2]>> /\ b[2] = form.check[f].lastValue
    BY <1>1 DEF ChecksOK
  <2>. QED
    BY <1>2, <2>1
<1>9. \A g \in AllFields :
        /\ IsCheck(n.check[g]) /\ n.check[g].lastFinished \in BOOLEAN
        /\ n.check[g].lastFinished <=> g \notin n.failed /\ \A b \in n.asked : b[1] # g
  <2>. SUFFICES ASSUME NEW g \in AllFields
                PROVE  /\ IsCheck(n.check[g]) /\ n.check[g].lastFinished \in BOOLEAN
                       /\ n.check[g].lastFinished <=>
                            g \notin n.failed /\ \A b \in n.asked : b[1] # g
    OBVIOUS
  <2>1. CASE g = f
    BY <1>2, <1>6, <1>7, <1>8, <2>1
  <2>2. CASE g # f
    <3>1. (\A b \in n.asked : b[1] # g) <=> (\A b \in form.asked : b[1] # g)
      BY <1>7, <2>2
    <3>. QED
      BY <1>1, <1>7, <2>2, <3>1 DEF ChecksOK
  <2>. QED
    BY <2>1, <2>2
<1>10. \A b \in n.asked : /\ Checks(b[1]) # {} /\ b[1] \notin n.failed
                          /\ b[2] = n.check[b[1]].lastValue
  <2>. SUFFICES ASSUME NEW b \in n.asked
                PROVE  /\ Checks(b[1]) # {} /\ b[1] \notin n.failed
                       /\ b[2] = n.check[b[1]].lastValue
    OBVIOUS
  <2>1. b \in form.asked /\ b # a /\ b[1] \in AllFields
    BY <1>1, <1>7 DEF ChecksOK
  <2>2. n.check[b[1]] = form.check[b[1]]
    BY <1>7, <1>8, <2>1
  <2>. QED
    BY <1>1, <1>7, <2>1, <2>2 DEF ChecksOK
<1>11. \A g \in AllFields : IsKnown(g, n.check[g])
  <2>1. IsKnown(f, c)
    BY <1>2, <1>6 DEF IsKnown, valid
  <2>. QED
    BY <1>1, <1>7, <2>1 DEF ChecksOK
<1>12. ChecksOK(n)
  BY <1>1, <1>2, <1>7, <1>9, <1>10, <1>11 DEF ChecksOK
<1>13. MarksOK(n, unseen)
  BY <1>1, <1>7 DEF MarksOK, IsCurrent
<1>. QED
  BY <1>3, <1>12, <1>13 DEF FormInv, FormOK

(* Where a call fails nothing is awaited any more, and nothing is asked.   *)
LEMMA CheckFailsKeeps ==
  ASSUME FormInv, NEW a \in form.asked, CheckFails(a[1], a[2])
  PROVE  FormInv'
<1>1. ChecksOK(form) /\ MarksOK(form, unseen)
  BY DEF FormInv, FormOK
<1>. DEFINE f == a[1]
<1>2. /\ f \in AllFields /\ a = <<a[1], a[2]>> /\ Checks(f) # {} /\ f \notin form.failed
      /\ a[2] = form.check[f].lastValue
  BY <1>1 DEF ChecksOK
<1>3. /\ IsForm(form') /\ form'.asked = form.asked \ {a} /\ form'.failed = form.failed \cup {f}
      /\ form'.value = form.value /\ form'.mark = form.mark /\ form'.check = form.check
      /\ form'.retrigger = form.retrigger
  BY <1>1, <1>2 DEF CheckFails, Becomes, ChecksOK, IsForm, FormFields
<1>4. \A b \in form.asked : b[1] = f => b = a
  <2>. SUFFICES ASSUME NEW b \in form.asked, b[1] = f
                PROVE  b = a
    OBVIOUS
  <2>1. b = <<b[1], b[2]>> /\ b[2] = form.check[f].lastValue
    BY <1>1 DEF ChecksOK
  <2>. QED
    BY <1>2, <2>1
<1>5. \A g \in AllFields : form'.check[g].lastFinished <=>
                             g \notin form'.failed /\ \A b \in form'.asked : b[1] # g
  <2>. SUFFICES ASSUME NEW g \in AllFields
                PROVE  form'.check[g].lastFinished <=>
                         g \notin form'.failed /\ \A b \in form'.asked : b[1] # g
    OBVIOUS
  <2>1. CASE g = f
    <3>1. ~form.check[f].lastFinished
      BY <1>1, <1>2 DEF ChecksOK
    <3>. QED
      BY <1>3, <2>1, <3>1
  <2>2. CASE g # f
    <3>1. (\A b \in form'.asked : b[1] # g) <=> (\A b \in form.asked : b[1] # g)
      BY <1>3, <2>2
    <3>. QED
      BY <1>1, <1>3, <2>2, <3>1 DEF ChecksOK
  <2>. QED
    BY <2>1, <2>2
<1>6. \A b \in form'.asked : /\ Checks(b[1]) # {} /\ b[1] \notin form'.failed
                             /\ b[2] = form'.check[b[1]].lastValue
  BY <1>1, <1>3, <1>4 DEF ChecksOK
<1>7. ChecksOK(form')
  BY <1>1, <1>2, <1>3, <1>5, <1>6 DEF ChecksOK
<1>8. MarksOK(form', unseen)
  BY <1>1, <1>3 DEF MarksOK, IsCurrent
<1>. QED
  BY <1>7, <1>8 DEF FormInv, FormOK, CheckFails

(* The timer that an answer sets judges the field again.                   *)
LEMMA RetriggerKeeps ==
  ASSUME FormInv, NEW f \in form.retrigger, Retrigger(f)
  PROVE  FormInv'
<1>1. ChecksOK(form) /\ MarksOK(form, unseen) /\ f \in AllFields
  BY DEF FormInv, FormOK, ChecksOK
<1>. DEFINE d == [form EXCEPT !.retrigger = @ \ {f}]
<1>2. /\ IsForm(d) /\ d.value = form.value /\ d.mark = form.mark /\ d.check = form.check
      /\ d.asked = form.asked /\ d.retrigger \subseteq form.retrigger
      /\ d.failed = form.failed
  BY <1>1 DEF ChecksOK, IsForm, FormFields
<1>3. /\ form' = Change(d, f, FALSE) /\ UNCHANGED <<mails, box>>
      /\ unseen' = unseen \ ({f} \cup Compared(f))
  BY DEF Retrigger, Becomes, Judges
<1>. HIDE DEF d
<1>4. ChecksOK(d)
  BY <1>1, <1>2 DEF ChecksOK
<1>5. \A g \in AllFields \ unseen : IsCurrent(d, g)
  BY <1>1, <1>2 DEF MarksOK, IsCurrent
<1>6. FormOK(Change(d, f, FALSE), unseen \ ({f} \cup Compared(f)))
  BY <1>1, <1>2, <1>4, <1>5, ChangeKeeps DEF MarksOK
<1>. QED
  BY <1>3, <1>6 DEF FormInv

(* Every step of the reader, the browser and the servers keeps it.         *)
LEMMA FormStep ==
  ASSUME FormInv, [Next]_vars
  PROVE  FormInv'
<1>1. CASE UNCHANGED vars
  BY <1>1 DEF FormInv, vars
<1>2. CASE Next
  BY <1>2, TypeKeeps, PasteKeeps, FocusKeeps, SubmitKeeps, AnsweredKeeps, CheckAnsweredKeeps,
     CheckFailsKeeps, RetriggerKeeps DEF Next, Reader, Page
<1>. QED
  BY <1>1, <1>2

(* The invariant holds of every behaviour.                                 *)
LEMMA FormInvariance == Spec => []FormInv
<1>1. Init => FormInv
  BY FormInit
<1>2. FormInv /\ [Next]_vars => FormInv'
  BY FormStep
<1>. QED
  BY <1>1, <1>2, PTL DEF Spec

-----------------------------------------------------------------------------
(* The properties of the run, for every form.                              *)

(* The type invariant: a check is finished exactly when no answer to it is *)
(* to come and no call of it failed, so that no two answers to one field   *)
(* are ever on their way (ajax.validate, callback.validate).               *)
THEOREM FormTypeInvariant == Spec => []FormTypeOK
<1>1. FormInv => FormTypeOK
  <2>. SUFFICES ASSUME FormInv
                PROVE  FormTypeOK
    OBVIOUS
  <2>1. ChecksOK(form) /\ MarksOK(form, unseen)
    BY DEF FormInv, FormOK
  <2>2. \A f \in AllFields : form.check[f].lastFinished =
          (f \notin form.failed /\ \A a \in form.asked : a[1] # f)
    BY <2>1 DEF ChecksOK
  <2>. QED
    BY <2>1, <2>2 DEF FormInv, FormTypeOK, ChecksOK, MarksOK, Marks
<1>. QED
  BY <1>1, FormInvariance, PTL

(* The mark of every field that is filled in is the one of the values as   *)
(* they are, whatever was typed, submitted, answered or cleared, and in    *)
(* whichever of two compared fields (the change handler, the match rule).  *)
THEOREM FormMarksAreCurrent == Spec => []MarksAreCurrent
<1>1. FormInv => MarksAreCurrent
  <2>. SUFFICES ASSUME FormInv, NEW f \in AllFields \ unseen, form.value[f] # Empty, Checks(f) = {}
                PROVE  Marked(f) = (BrokenRules(form.value, f, FALSE) # {})
    BY DEF MarksAreCurrent
  <2>1. IsCurrent(form, f)
    BY DEF FormInv, FormOK, MarksOK
  <2>2. Marked(f) <=> BrokenRules(form.value, f, FALSE) # {}
    BY <2>1 DEF IsCurrent, Marked
  <2>3. Marked(f) \in BOOLEAN
    BY DEF Marked
  <2>. QED
    BY <2>2, <2>3
<1>. QED
  BY <1>1, FormInvariance, PTL

(* Nothing is posted that breaks a rule, also what no event has judged     *)
(* before, and a value that is rejected only while its check is not        *)
(* finished: a check that is knows the value and what its server says of   *)
(* it, or the submission has just asked again (the submit handler).        *)
THEOREM FormSentIsValid == Spec => SentIsValid
<1>1. FormInv /\ [Next]_vars =>
        [mails' > mails =>
           \A f \in AllFields :
             /\ \A rule \in Rules(f) :
                  TypeOf(rule) \in BlockSubmit \/ form.value[f] # Empty =>
                    ~Breaks(form.value, f, rule)
             /\ form.value[f] # Empty /\ Rejects(f, form.value[f]) =>
                  ~form'.check[f].lastFinished]_vars
  <2>. SUFFICES ASSUME FormInv, [Next]_vars, mails' > mails, NEW f \in AllFields
                PROVE  /\ \A rule \in Rules(f) :
                            TypeOf(rule) \in BlockSubmit \/ form.value[f] # Empty =>
                              ~Breaks(form.value, f, rule)
                       /\ form.value[f] # Empty /\ Rejects(f, form.value[f]) =>
                            ~form'.check[f].lastFinished
    OBVIOUS
  <2>1. mails \in Int
    BY Bounds DEF FormInv
  <2>2. Submit /\ mails' # mails
    <3>1. Answered => mails' = mails - 1
      BY DEF Answered
    <3>2. Next => Submit \/ Answered \/ mails' = mails
      BY DEF Next, Reader, Page, Type, Paste, Focus, Blur, CheckAnswered, CheckFails, Retrigger
    <3>. QED
      BY <2>1, <3>1, <3>2 DEF vars
  <2>3. /\ {g \in AllFields : JudgeAll(form).mark[g] = "warning"} = {}
        /\ form' = JudgeAll(form)
    BY <2>2 DEF Submit, Becomes
  <2>4. /\ ChecksOK(form)
        /\ JudgeAll(form).mark[f] = WithoutSuccess(Verdict(form, f, TRUE))
        /\ JudgeAll(form).check[f].lastFinished /\ Checks(f) # {} /\ form.value[f] # Empty =>
             form.check[f].lastFinished /\ form.check[f].lastValue = form.value[f]
    BY JudgeAllKeeps DEF FormInv, FormOK
  <2>5. /\ ~IsRejected(form, f)
        /\ \A rule \in Rules(f) :
             TypeOf(rule) \in BlockSubmit \/ form.value[f] # Empty => ~Breaks(form.value, f, rule)
    BY <2>3, <2>4, JudgedRight
  <2>6. ASSUME form.value[f] # Empty, Rejects(f, form.value[f]), form'.check[f].lastFinished
        PROVE  FALSE
    <3>1. Checks(f) # {}
      BY <2>6 DEF Rejects
    <3>2. form.check[f].lastFinished /\ form.check[f].lastValue = form.value[f]
      BY <2>3, <2>4, <2>6, <3>1
    <3>3. ~form.check[f].lastValid
      BY <2>4, <2>6, <3>2 DEF ChecksOK, IsKnown
    <3>. QED
      BY <2>5, <2>6, <3>1, <3>2, <3>3 DEF IsRejected
  <2>. QED
    BY <2>5, <2>6
<1>. QED
  BY <1>1, FormInvariance, PTL DEF Spec, SentIsValid
=============================================================================
