---------------------------- MODULE MCContactForm ---------------------------
(* Instances of ContactForm for TLC: a required address that a server      *)
(* checks, a password of some length, and the password again.              *)
EXTENDS FormInTurn

SignUpFields == {"user", "password", "again"}
SignUp == <<"user", "password", "again">>
SomeAttributes == [f \in {"user", "password", "again"} |->
  CASE f = "user" -> {"required"} [] f = "password" -> {"minlength"} [] OTHER -> {}]
SomeNamed == [f \in {"user", "password", "again"} |->
  CASE f = "user" -> {"email", "taken"} [] f = "again" -> {"passwordagain"} [] OTHER -> {}]
SomePasses == [r \in {"validemail", "minlength"} |->
  IF r = "validemail" THEN {"a", "b"} ELSE {"a"}]
SomeOther == [f \in {"again"} |-> "password"]
TakenNames == [r \in {"taken"} |-> {"b"}]

\* Two fields that others are compared with, one of them twice; a callback
\* checks a field of either kind.
Repeated == <<"name", "again", "code", "twice", "thrice">>
RepeatedAttributes == [f \in {"name", "again", "code", "twice", "thrice"} |-> {}]
RepeatedNamed == [f \in {"name", "again", "code", "twice", "thrice"} |->
  CASE f = "name" -> {} [] f = "code" -> {"known"} [] f = "twice" -> {"passwordagain", "known"}
    [] OTHER -> {"passwordagain"}]
RepeatedOther == [f \in {"again", "twice", "thrice"} |-> IF f = "again" THEN "name" ELSE "code"]
UnknownCodes == [r \in {"known"} |-> {"a"}]

Many == INSTANCE FormInTurn WITH
  AllFields <- DOMAIN RepeatedAttributes, Fields <- Repeated, Values <- {"a"}, Attributes <- RepeatedAttributes,
  Named <- RepeatedNamed, Other <- RepeatedOther, AjaxRules <- {},
  CallbackRules <- {"known"}, Rejected <- UnknownCodes

\* Evaluated on the form of the run and on the one above; no proof uses it.
ASSUME SignUpInTurn == \A d \in Forms : InTurnAsAtOnce(d)
ASSUME ManyInTurn == \A d \in Many!Forms : Many!InTurnAsAtOnce(d)
=============================================================================
