------------------------------ MODULE Correlation ------------------------------
(***************************************************************************)
(* Which recent signalling request explains a media consumer of go2rtc:    *)
(* matchSignal and shouldUpgradeIdentity of internal/audit/manager.go.     *)
(*                                                                         *)
(* Signals are a sequence, oldest arrival first.  An actor stands for the  *)
(* pair (actor, actor_type) that the code compares; Services are those     *)
(* whose type is "service".                                                *)
(***************************************************************************)
EXTENDS Integers, Sequences, FiniteSets

CONSTANTS
  Unknown,   \* the empty host or user agent
  Services,  \* actors that a signal may assert without any network evidence
  Window     \* 15 s: how long a signal explains a consumer

Live(s, now) == now - s.at <= Window

\* sameHost && compatibleUserAgent, or a trusted service.
Strong(s, desc) ==
  \/ s.actor \in Services
  \/ /\ s.host \in {Unknown, desc.host} \/ desc.host = Unknown
     /\ s.ua \in {Unknown, desc.ua} \/ desc.ua = Unknown

SameUserAgent(s, desc) == s.ua # Unknown /\ s.ua = desc.ua

Candidates(signals, camera, now) ==
  {i \in DOMAIN signals : signals[i].camera = camera /\ Live(signals[i], now)}

\* The newest strong signal; failing that the newest signal with the very user
\* agent of the consumer, provided they all come from one actor.  The empty set
\* is the code's `signal{}, false'.
MatchSignal(signals, camera, desc, now) ==
  LET all    == Candidates(signals, camera, now)
      strong == {i \in all : Strong(signals[i], desc)}
      sameUA == {i \in all : SameUserAgent(signals[i], desc)}
      Newest(I) == {signals[i] : i \in {j \in I : \A k \in I : k <= j}}
  IN  IF strong # {} THEN Newest(strong)
      ELSE IF \A i, j \in sameUA : signals[i].actor = signals[j].actor
           THEN Newest(sameUA)
           ELSE {}

\* pruneSignalsLocked keeps the signals strictly inside the window, in order.
Unexpired(signals, now) ==
  LET inside == {i \in DOMAIN signals : signals[i].at > now - Window}
      order  == CHOOSE f \in [1 .. Cardinality(inside) -> inside] :
                  \A i, j \in DOMAIN f : i < j => f[i] < f[j]
  IN  [i \in DOMAIN order |-> signals[order[i]]]

\* Ranks of a confidence: "exact", "correlated", "inferred", anything else.
Exact == 3
Correlated == 2
Inferred == 1
ServiceDevice == 0

\* Mutant: equal ranks upgrade.
ShouldUpgradeEqual(current, candidate) == candidate >= current

ShouldUpgrade(current, candidate) == candidate > current
===============================================================================
