---------------------------- MODULE ContactForm -----------------------------
(***************************************************************************)
(* A form of the site with jqBootstrapValidation (js/clean-blog.js): the   *)
(* rules read from the markup, the verdict next to every field, checks     *)
(* that a server or a callback answers later, the submit handler and the   *)
(* message it posts.                                                       *)
(*                                                                         *)
(* Every field has a form-group of its own, as in the contact form the     *)
(* script is written for.  The texts of the messages are left out, and so  *)
(* are groups of checkboxes (minchecked, maxchecked) and hidden fields.    *)
(*                                                                         *)
(* One event runs the handlers of several fields in turn.  What a field is *)
(* judged by, its value and the check that knows this value, none of them  *)
(* changes: an event is one update of all the fields, by the marks they    *)
(* have before it.  FormInTurn compares it with the handlers in turn.      *)
(***************************************************************************)
EXTENDS Integers, Sequences, SequencesExt, FiniteSets

CONSTANTS
  AllFields,    \* the fields of the form
  Fields,       \* these in document order
  Values,       \* what a reader may type
  Empty,        \* the empty value, also the one a reset brings back
  Attributes,   \* field -> the attributes rules are read from
  Named,        \* field -> the names in its data-validation attributes
  Passes,       \* rule -> the values that pass it, for rules on the value
  Other,        \* field -> the field a match rule compares it with
  AjaxRules,    \* the rules with data-validation-...-ajax
  CallbackRules,\* the rules with data-validation-...-callback
  Rejected,     \* rule -> the values its server or callback rejects
  MaxMails,     \* bound: messages on their way
  MaxChecks,    \* bound: checks and timers on their way
  MaxUnseen     \* bound: fields whose change no event has judged yet

VARIABLES
  form,         \* the fields, their marks and the state of their checks
  mails,        \* how many messages are posted and not yet answered
  box,          \* the box for the outcome of a message
  unseen        \* history: the fields no event has judged since their value, or
                \* the one they are compared with, was changed without one

vars == <<form, mails, box, unseen>>

-----------------------------------------------------------------------------
(* The rules of a field.                                                   *)

(* Attributes stand for rules of their name; an input of type email gets   *)
(* validemail, one of type number gets number.                             *)
Sniffed(f) ==
  (Attributes[f] \cap {"pattern", "max", "min", "maxlength", "minlength", "required", "number"})
  \cup {r \in {"validemail"} : "email" \in Attributes[f]}

BuiltIn ==
  [email |-> "shortcut", positive |-> "shortcut", negative |-> "shortcut",
   validemail |-> "regex", number |-> "regex", integer |-> "regex",
   positivenumber |-> "min", negativenumber |-> "max",
   passwordagain |-> "match", required |-> "required"]

Shortcut ==
  [email |-> {"validemail"}, positive |-> {"number", "positivenumber"},
   negative |-> {"number", "negativenumber"}]

(* Names that are shortcuts are kept and joined by what they stand for,    *)
(* which is never a shortcut again.                                        *)
RuleNames(f) ==
  LET names == Sniffed(f) \cup Named[f]
  IN  names \cup UNION {Shortcut[n] : n \in names \cap DOMAIN Shortcut}

(* The type of a rule: that of its own data attribute, or the built-in's.  *)
TypeOf(rule) ==
  CASE rule \in AjaxRules -> "ajax"
    [] rule \in CallbackRules -> "callback"
    [] rule = "pattern" -> "regex"
    [] rule \in {"max", "min", "maxlength", "minlength"} -> rule
    [] OTHER -> BuiltIn[rule]

Rules(f) == {rule \in RuleNames(f) : TypeOf(rule) # "shortcut"}
RulesOfType(f, types) == {rule \in Rules(f) : TypeOf(rule) \in types}
CheckTypes == {"ajax", "callback"}
Checks(f) == RulesOfType(f, CheckTypes)

\* A rule without a type is an error of the page: $.error stops the script.
ASSUME RulesFound ==
  \A f \in AllFields : \A rule \in RuleNames(f) :
    rule \in AjaxRules \cup CallbackRules \cup DOMAIN BuiltIn
             \cup {"pattern", "max", "min", "maxlength", "minlength"}
ASSUME OneCheck == \A f \in AllFields : Cardinality(Checks(f)) <= 1
\* A field must match another of the form, that itself need match none.
ASSUME NoChain == \A f \in AllFields :
  RulesOfType(f, {"match"}) # {} =>
    /\ Other[f] \in AllFields \ {f}
    /\ RulesOfType(Other[f], {"match"}) = {}
ASSUME Once == IsInjective(Fields) /\ ToSet(Fields) = AllFields /\ Fields # <<>>
ASSUME Bounds == MaxMails \in Nat

-----------------------------------------------------------------------------
(* Judging a field.                                                        *)

\* Rules on the value look at a value only, these two at the lack of one too.
BlockSubmit == {"required", "match"}

BugIsJudged(value, type, submitting) == value # Empty

IsJudged(value, type, submitting) ==
  value # Empty \/ (type \in BlockSubmit /\ submitting)

\* Whether a value breaks a rule that is judged on the spot.
Breaks(values, f, rule) ==
  CASE TypeOf(rule) = "required" -> values[f] = Empty
    [] TypeOf(rule) = "match" -> values[f] # values[Other[f]]
    [] TypeOf(rule) \in CheckTypes -> FALSE
    [] OTHER -> values[f] \notin Passes[rule]

BrokenRules(values, f, submitting) ==
  {rule \in Rules(f) : IsJudged(values[f], TypeOf(rule), submitting) /\ Breaks(values, f, rule)}

(* A check knows one value and whether it is valid.  In all other cases    *)
(* the field passes for now.                                               *)
IsRejected(d, f) ==
  LET check == d.check[f]
  IN  /\ check.lastFinished /\ check.lastValue = d.value[f] /\ ~check.lastValid
      /\ d.value[f] # Empty /\ Checks(f) # {}

\* The value of some fields is asked about.
AskAbout(d, some) ==
  [d EXCEPT !.check = [f \in AllFields |->
                         IF f \in some THEN [lastValue |-> d.value[f], lastValid |-> TRUE,
                                             lastFinished |-> FALSE]
                         ELSE @[f]],
            !.asked = @ \cup {<<f, d.value[f]>> : f \in some}]

BugAsk(d, some, includeEmpty) ==
  AskAbout(d, {f \in some : /\ Checks(f) # {} /\ (includeEmpty \/ d.value[f] # Empty)
                            /\ d.check[f].lastValue # d.value[f]})

(* The value a check knows is not asked about again; another is, unless an *)
(* answer is still awaited.  An empty value is asked about only where every*)
(* error is collected.                                                     *)
Ask(d, some, includeEmpty) ==
  AskAbout(d, {f \in some : /\ d.check[f].lastFinished
                            /\ d.check[f].lastValue # d.value[f]
                            /\ includeEmpty \/ d.value[f] # Empty
                            /\ Checks(f) # {}})

\* The mark of a field that is judged.
Verdict(d, f, submitting) ==
  IF BrokenRules(d.value, f, submitting) # {} \/ IsRejected(d, f) THEN "warning"
  ELSE IF d.value[f] # Empty THEN "success" ELSE "none"

\* Success goes with the event of another field, or the focus.
WithoutSuccess(mark) == IF mark = "success" THEN "none" ELSE mark

\* Bug: a rule named in the data attribute is not bound to the other field.
BugMustMatch(f) == "match" \in Attributes[f]

\* A field that must match another one.
MustMatch(f) == RulesOfType(f, {"match"}) # {}

\* The fields that are compared with a field: they are judged when it is.
Compared(f) == {g \in AllFields : MustMatch(g) /\ Other[g] = f}

(* An event on a field: those that are compared with it are judged first,  *)
(* as if submitted, then the field; the others lose their success to it.   *)
Change(d, f, submitting) ==
  LET compared == Compared(f)
  IN  [Ask(d, {f} \cup compared, FALSE) EXCEPT
         !.mark = [g \in AllFields |->
                     IF g = f THEN Verdict(d, f, submitting)
                     ELSE WithoutSuccess(IF g \in compared THEN Verdict(d, g, TRUE) ELSE @[g])]]

LostFocus(d) ==
  [d EXCEPT !.mark = [f \in AllFields |-> WithoutSuccess(@[f])]]

(* The event submit on all the fields: all are judged, and have lost their *)
(* focus in the end.                                                       *)
JudgeAll(d) ==
  [Ask(d, AllFields, FALSE) EXCEPT
     !.mark = [f \in AllFields |-> WithoutSuccess(Verdict(d, f, TRUE))]]

\* The place of a field in the document.
Place(f) == CHOOSE i \in DOMAIN Fields : Fields[i] = f

\* Of all fields compared with another, the one a pass over the document judges last.
JudgedLast(f) ==
  \A g \in {g \in AllFields : MustMatch(g)} :
    \/ Place(Other[g]) < Place(Other[f])
    \/ Other[g] = Other[f] /\ Place(g) <= Place(f)

(* Collecting the errors marks no field but those that are compared with   *)
(* another, and asks also about the empty ones.  They lose their success   *)
(* to each other.                                                          *)
CollectErrors(d) ==
  [Ask(d, AllFields, TRUE) EXCEPT
     !.mark = [f \in AllFields |->
                 IF ~MustMatch(f) THEN @[f]
                 ELSE IF JudgedLast(f) THEN Verdict(d, f, TRUE)
                 ELSE WithoutSuccess(Verdict(d, f, TRUE))]]

-----------------------------------------------------------------------------
(* What the reader does.                                                   *)

Init ==
  /\ form = [value |-> [f \in AllFields |-> Empty],
             mark |-> [f \in AllFields |-> "none"],
             check |-> [f \in AllFields |-> [lastValue |-> Empty, lastValid |-> TRUE,
                                             lastFinished |-> TRUE]],
             asked |-> {}, retrigger |-> {}, failed |-> {}]
  /\ mails = 0
  /\ box = "none"
  /\ unseen = {}

Becomes(new) ==
  /\ form' = new
  /\ Cardinality(form'.asked) + Cardinality(form'.retrigger) <= MaxChecks

\* An event on a field judges it and what is compared with it.
Judges(f) == unseen' = unseen \ ({f} \cup Compared(f))

\* A value is typed, pasted or deleted by keys: keyup comes after it.
Type(f, value) ==
  /\ value # form.value[f]
  /\ Becomes(Change([form EXCEPT !.value[f] = value], f, FALSE))
  /\ Judges(f)
  /\ UNCHANGED <<mails, box>>

(* A value is pasted, dropped or filled in without a key: no event that is *)
(* bound comes before the field is next clicked, changed or left.          *)
Paste(f, value) ==
  /\ value # form.value[f]
  /\ Cardinality(unseen) < MaxUnseen
  /\ Becomes([form EXCEPT !.value[f] = value])
  /\ unseen' = unseen \cup {f} \cup Compared(f)
  /\ UNCHANGED <<mails, box>>

(* A click, a key that goes down and a change the browser tells of judge   *)
(* like the focus.  The first field also clears the box when it gets it.   *)
Focus(f) ==
  /\ Becomes(Change(form, f, FALSE))
  /\ Judges(f)
  /\ box' = IF f = Head(Fields) THEN "none" ELSE box
  /\ UNCHANGED mails

Blur(f) ==
  /\ Becomes(LostFocus(Change(form, f, FALSE)))
  /\ Judges(f)
  /\ UNCHANGED <<mails, box>>

(* The submit handler: every field is judged as submitted; where that left *)
(* a warning it becomes an error, all errors are collected, and nothing is *)
(* sent.                                                                   *)
Submit ==
  LET judged == JudgeAll(form)
      wrong == {f \in AllFields : judged.mark[f] = "warning"}
      new == [judged EXCEPT !.mark = [f \in AllFields |-> IF f \in wrong THEN "error" ELSE @[f]]]
  IN  /\ \/ /\ wrong # {}
            /\ Becomes(CollectErrors(new))
            /\ UNCHANGED mails
         \/ /\ wrong = {}
            /\ Becomes(judged)
            /\ mails < MaxMails
            /\ mails' = mails + 1
      /\ unseen' = {}
      /\ UNCHANGED box

-----------------------------------------------------------------------------
(* What comes back.                                                        *)

(* A message is answered, well or not: the box tells, and every field is   *)
(* cleared, also of what was typed since.                                  *)
Answered ==
  /\ mails > 0
  /\ mails' = mails - 1
  /\ box' \in {"sent", "failed"}
  /\ form' = [form EXCEPT !.value = [f \in AllFields |-> Empty]]
  /\ unseen' = {}

\* The server or callback that checks a field rejects a value.
Rejects(f, value) == \E rule \in Checks(f) : value \in Rejected[rule]

\* The answer to a check counts when it is about the value asked last.
CheckAnswered(f, value) ==
  LET heard == [form EXCEPT !.asked = @ \ {<<f, value>>}]
  IN  /\ Becomes(IF form.check[f].lastValue = value
                 THEN [heard EXCEPT !.check[f].lastValid = ~Rejects(f, value),
                                    !.check[f].lastFinished = TRUE,
                                    !.retrigger = @ \cup {f}]
                 ELSE heard)
      /\ UNCHANGED <<mails, box, unseen>>

(* A call that fails: jQuery knows no "failure", so nothing is run.        *)
CheckFails(f, value) ==
  /\ RulesOfType(f, {"ajax"}) # {}
  /\ Becomes([form EXCEPT !.asked = @ \ {<<f, value>>}, !.failed = @ \cup {f}])
  /\ UNCHANGED <<mails, box, unseen>>

BugRetrigger(f) ==
  /\ Becomes([form EXCEPT !.retrigger = @ \ {f}])
  /\ UNCHANGED <<mails, box, unseen>>

\* The timer an answer sets: the field is judged again.
Retrigger(f) ==
  /\ Becomes(Change([form EXCEPT !.retrigger = @ \ {f}], f, FALSE))
  /\ Judges(f)
  /\ UNCHANGED <<mails, box>>

-----------------------------------------------------------------------------
Reader ==
  \/ \E f \in AllFields, value \in Values \cup {Empty} : Type(f, value) \/ Paste(f, value)
  \/ \E f \in AllFields : Focus(f) \/ Blur(f)
  \/ Submit

Page ==
  \/ Answered
  \/ \E a \in form.asked : CheckAnswered(a[1], a[2])
  \/ \E a \in form.asked : CheckFails(a[1], a[2])
  \/ \E f \in form.retrigger : Retrigger(f)

Next == Reader \/ Page

(* The browser fires every timer, and every call is answered or fails:     *)
(* weak fairness, with ENABLED written out as what is pending.             *)
Fairness ==
  /\ []<>(form.asked = {}) \/
     []<><<\E a \in form.asked : CheckAnswered(a[1], a[2]) \/ CheckFails(a[1], a[2])>>_vars
  /\ []<>(form.retrigger = {}) \/ []<><<\E f \in form.retrigger : Retrigger(f)>>_vars

Spec == Init /\ [][Next]_vars /\ Fairness

-----------------------------------------------------------------------------
(* Properties.                                                             *)

\* What the form, the messages and the box are made of.
FormTypeOK ==
  /\ form.value \in [AllFields -> Values \cup {Empty}]
  /\ form.mark \in [AllFields -> {"none", "success", "warning", "error"}]
  /\ form.asked \subseteq AllFields \X (Values \cup {Empty})
  /\ form.retrigger \cup form.failed \subseteq {f \in AllFields : Checks(f) # {}}
  /\ \A f \in AllFields : form.check[f].lastFinished =
       (f \notin form.failed /\ \A a \in form.asked : a[1] # f)
  /\ mails \in 0 .. MaxMails
  /\ box \in {"none", "sent", "failed"}
  /\ unseen \subseteq AllFields

Marked(f) == form.mark[f] \in {"warning", "error"}

(* A field that is filled in shows whether it breaks a rule: its mark is   *)
(* that of the values as they are, also when the field it is compared with *)
(* was the one to change (the change handler, the match rule).  Only one   *)
(* that was changed without any event waits for the next to be judged.     *)
MarksAreCurrent ==
  \A f \in AllFields \ unseen :
    form.value[f] # Empty /\ Checks(f) = {} =>
      Marked(f) = (BrokenRules(form.value, f, FALSE) # {})

(* Nothing is posted that breaks a rule, a required field left empty       *)
(* included, whether an event judged it before or not (the submit handler).*)
(* A value its server rejects is posted in one case only: the check is not *)
(* finished, because its answer is still to come or its call failed.       *)
SentIsValid ==
  [][mails' > mails =>
       \A f \in AllFields :
         /\ \A rule \in Rules(f) :
              TypeOf(rule) \in BlockSubmit \/ form.value[f] # Empty =>
                ~Breaks(form.value, f, rule)
         /\ form.value[f] # Empty /\ Rejects(f, form.value[f]) => ~form'.check[f].lastFinished]_vars

(* Once the reader stops, every check comes to an end: the field shows     *)
(* whether the value it holds is rejected, whatever was asked about        *)
(* before, unless a call failed, or the field was cleared or changed       *)
(* without an event.                                                       *)
VerdictsCome ==
  (<>[][Page]_vars /\ [](form.failed = {})) =>
    <>[](\A f \in AllFields \ unseen :
           Checks(f) # {} /\ form.value[f] # Empty =>
             Marked(f) = (BrokenRules(form.value, f, FALSE) # {} \/ Rejects(f, form.value[f])))
=============================================================================
