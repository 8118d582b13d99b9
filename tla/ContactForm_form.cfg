\* Three fields and two values; one message on its way; the check of the one
\* field that has one, and the timer an earlier answer has set; one change
\* without a key.  A reader who has left may find nothing pending: deadlock is
\* not an error.
CONSTANTS
  AllFields <- SignUpFields
  Fields <- SignUp
  Values = {"a", "b"}
  Empty = ""
  Attributes <- SomeAttributes
  Named <- SomeNamed
  Passes <- SomePasses
  Other <- SomeOther
  AjaxRules = {"taken"}
  CallbackRules = {}
  Rejected <- TakenNames
  MaxMails = 1
  MaxChecks = 2
  MaxUnseen = 1
SPECIFICATION Spec
INVARIANTS FormTypeOK MarksAreCurrent
PROPERTIES SentIsValid VerdictsCome
CHECK_DEADLOCK FALSE
