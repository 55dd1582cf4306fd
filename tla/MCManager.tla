----------------------------- MODULE MCManager -----------------------------
(***************************************************************************)
(* Small instances of Manager for TLC.  Three ports, and intents that pull *)
(* one import and one publication onto the same local port.                *)
(***************************************************************************)
EXTENDS Manager

NoRules ==
    [remembered |-> <<>>, published |-> <<>>, auto |-> <<>>,
     reserved |-> {}, rules |-> {}, ignored |-> {}]

\* The local port is omitted: same port, with fallback.
Remember(remote) == [remote |-> remote, local |-> 0, allowFallback |-> FALSE]
RememberAt(remote, local) == [remote |-> remote, local |-> local, allowFallback |-> FALSE]
Publish(local, remote) == [local |-> local, remote |-> remote]

\* Remote port 1 is imported, at the same port or a later one.
Importing == [NoRules EXCEPT !.remembered = <<Remember(1)>>]

\* The local service 1 is published at remote port 3, and the import stays.
Publishing == [Importing EXCEPT !.published = <<Publish(1, 3)>>]

\* The fallback port of the import is published instead.
PublishingFallback == [Importing EXCEPT !.published = <<Publish(2, 3)>>]

\* Another host publishes local port 1.
ReservedElsewhere == [Importing EXCEPT !.reserved = {1}]

\* The import is rebound to the last port, exactly, and then with fallback.
Rebinding == [NoRules EXCEPT !.remembered = <<RememberAt(1, 3)>>]
RebindingLast ==
    [NoRules EXCEPT !.remembered = <<[RememberAt(1, 3) EXCEPT !.allowFallback = TRUE]>>]

\* A listener on remote port 1 is forwarded by a directory rule; by a global
\* port rule, elsewhere; not at all; as a fixed forward; and not any more
\* because it is the remote end of a publication of the fallback port.
Directing == [NoRules EXCEPT !.rules = {"glob"}]
PortRule == [Directing EXCEPT !.auto = <<RememberAt(1, 3)>>]
Ignoring == [Directing EXCEPT !.ignored = {"app"}]
Promoting == [Directing EXCEPT !.remembered = <<Remember(1)>>]
PublishingListener == [Directing EXCEPT !.published = <<Publish(2, 1)>>]

\* Refused: two imports want one local port, and a name no rule may have.
Duplicate == [NoRules EXCEPT !.remembered = <<Remember(1), RememberAt(2, 1)>>]
Misnamed == [NoRules EXCEPT !.rules = {NoName}]

Here == [app |-> "app", directory |-> "dir"]
MCMatch == {<<"glob", "dir">>}

\* One import, one publication, every way they can meet on a local port.
PortIntents ==
    {Importing, Publishing, ReservedElsewhere, Rebinding, RebindingLast, Duplicate}
FallbackIntents == {Importing, PublishingFallback}
ReservingIntents == {Publishing}
PortObservations == {NoListeners}

\* The same with two ports, for the liveness runs.
PublishingBack == [Importing EXCEPT !.published = <<Publish(1, 2)>>]
WaitingIntents == {Importing, PublishingBack}

\* Two imports prefer local port 1, which is then published: remote port 2 by
\* the user, remote port 1 by the directory rule.
Competing == [Directing EXCEPT !.remembered = <<RememberAt(2, 1)>>]
PublishingContended == [Competing EXCEPT !.published = <<Publish(1, 3)>>]
CompetingIntents == {Competing, PublishingContended}
CompetingObservations == {[p \in {1} |-> Here]}

\* Automatic forwards come and go with listeners and rules.
RuleIntents == {Directing, PortRule, Ignoring, Promoting, PublishingListener, Misnamed}
RuleObservations == {NoListeners, [p \in {1} |-> Here]}

============================================================================
