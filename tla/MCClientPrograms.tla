--------------------------- MODULE MCClientPrograms ---------------------------
(***************************************************************************)
(* Two savers of two tokens; two tabs, two destinations that pass the       *)
(* filter, two that do not; one tab of each example application.            *)
(***************************************************************************)
EXTENDS ClientPrograms

Url(name, double_slash, colon) ==
  [name |-> name, rooted |-> TRUE, double_slash |-> double_slash, colon |-> colon,
   blank |-> FALSE]

MCUrls == {Url("/a", FALSE, FALSE), Url("/b", FALSE, FALSE), Url("/t?at=9:30", FALSE, TRUE)}
MCForeign == {Url("/f", FALSE, FALSE), Url("//f", TRUE, FALSE)}
MCPageUrl ==
  [p \in {"home", "login", "dashboard", "register", "verify", "forgot", "reset"} |->
     Url(p, FALSE, FALSE)]
=============================================================================
