----------------------------- MODULE MCService -----------------------------
(***************************************************************************)
(* Commands and service for TLC: an import and a publication that exclude  *)
(* each other, the removal of a rule, an ignored host, and an uninstall.   *)
(***************************************************************************)
EXTENDS Service, TLC

CONSTANTS box

NoRules == [forwards |-> {}, published |-> {}, directories |-> {}, apps |-> {}]

Strict == [remote |-> 80, local |-> 80, fallback |-> FALSE]
Other == [remote |-> 81, local |-> 81, fallback |-> TRUE]
Publication == [local |-> 80, remote |-> 8080]

Rule(kind, rule, adding) == [kind |-> "edit", scope |-> box, rules |-> kind, rule |-> rule, adding |-> adding]

MCTask == {Rule("forwards", Strict, TRUE),
           Rule("published", Publication, TRUE),
           Rule("forwards", Other, FALSE),
           [kind |-> "host", scope |-> box, target |-> NoTarget, ignore |-> TRUE],
           [kind |-> "uninstall"]}

MCStored == {[rules |-> [s \in Scope |-> IF s = box THEN [NoRules EXCEPT !.forwards = {Other}] ELSE NoRules],
              hosts |-> [s \in Scope |-> NoTarget],
              ignored |-> {}]}

============================================================================
