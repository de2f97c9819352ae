------------------------------- MODULE MCMatcher -------------------------------
(* Three rules, one of each scope, with every set of matches they can have *)
(* in a short text.                                                        *)
EXTENDS Matcher

MCScope(r) == <<"both", "request", "response">>[r]
=============================================================================
