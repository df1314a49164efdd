--------------------------- MODULE Recorder_proofs ---------------------------
(***************************************************************************)
(* Proofs about Recorder.  The programs use their connection in the order  *)
(* ConnectionSpec allows, so what is said of the connection is proved from *)
(* ConnectionSpec, whatever else the program does.  What is said of a      *)
(* recording follows main stage by stage: StageInv says how far frames,    *)
(* clock and sleep can be apart at each.                                   *)
(***************************************************************************)
EXTENDS Recorder, TLAPS

\* News at or after place i of s that ends the belief in a connection.
Ending == {"lost", "bye"}
EndsFrom(s, i) == \E j \in i..Len(s) : s[j] \in Ending

\* While no attempt was ever queued beside a connection, an attempt means there
\* is no connection, and every reason to believe in one that is gone, be it in
\* the flags or in the mail, is followed by the news of its end.
Sound ==
    /\ attempt = TRUE => peer = "none"
    /\ isconnected = TRUE /\ connection_lost = FALSE =>
           peer = "connected" \/ EndsFrom(mail, 1)
    /\ \A i \in 1..Len(mail) :
           mail[i] = "accepted" => peer = "connected" \/ EndsFrom(mail, i)

NotBegun == pc = "begin" => peer = "none" /\ attempt = FALSE

ConnectionInv ==
    /\ ConnectionTypes /\ NotBegun
    /\ doubled = FALSE /\ pc # "ended" => Sound

ConnectionStep == [MainThread \/ Elsewhere]_connectionVars

---------------------------------------------------------------------------
(* The mail.                                                               *)

LEMMA TailOfMail ==
    ASSUME NEW s \in Seq(Kinds), s # << >>
    PROVE  /\ Tail(s) \in Seq(Kinds) /\ Head(s) \in Kinds /\ Head(s) = s[1]
           /\ Len(Tail(s)) = Len(s) - 1
           /\ \A i \in 1..Len(Tail(s)) : Tail(s)[i] = s[i + 1]
  OBVIOUS

LEMMA TailEnds ==
    ASSUME NEW s \in Seq(Kinds), s # << >>
    PROVE  /\ EndsFrom(s, 1) /\ s[1] \notin Ending => EndsFrom(Tail(s), 1)
           /\ \A i \in 1..Len(Tail(s)) :
                  EndsFrom(s, i + 1) => EndsFrom(Tail(s), i)
<1> DEFINE t == Tail(s)
<1>1. /\ Len(s) \in Nat /\ Len(t) = Len(s) - 1
      /\ \A i \in 1..Len(t) : t[i] = s[i + 1]
  BY TailOfMail
<1>2. ASSUME NEW i \in 1..Len(s), EndsFrom(s, i), i # 1 \/ s[1] \notin Ending
      PROVE  EndsFrom(t, IF i = 1 THEN 1 ELSE i - 1)
  <2>1. PICK j \in i..Len(s) : s[j] \in Ending
    BY <1>2 DEF EndsFrom
  <2>2. j # 1
    BY <1>2, <2>1
  <2>3. j - 1 \in 1..Len(t) /\ t[j - 1] = s[j]
    BY <1>1, <2>1, <2>2
  <2> QED
    BY <2>1, <2>2, <2>3 DEF EndsFrom
<1>3. EndsFrom(s, 1) /\ s[1] \notin Ending => EndsFrom(t, 1)
  <2>1. Len(s) > 0
    BY <1>1, s # << >>
  <2> QED
    BY <1>2, <2>1
<1>4. ASSUME NEW i \in 1..Len(t), EndsFrom(s, i + 1)
      PROVE  EndsFrom(t, i)
  <2>1. i + 1 \in 1..Len(s) /\ i + 1 # 1 /\ (i + 1) - 1 = i
    BY <1>1
  <2> QED
    BY <1>2, <1>4, <2>1
<1> QED
  BY <1>3, <1>4

LEMMA AppendEnds ==
    ASSUME NEW s \in Seq(Kinds), NEW k \in Kinds
    PROVE  /\ Append(s, k) \in Seq(Kinds) /\ Len(Append(s, k)) = Len(s) + 1
           /\ \A i \in 1..Len(s) : Append(s, k)[i] = s[i]
           /\ Append(s, k)[Len(s) + 1] = k
           /\ \A i \in Nat \ {0} : EndsFrom(s, i) => EndsFrom(Append(s, k), i)
           /\ k \in Ending => \A i \in 1..(Len(s) + 1) : EndsFrom(Append(s, k), i)
<1> DEFINE t == Append(s, k)
<1>1. /\ t \in Seq(Kinds) /\ Len(s) \in Nat /\ Len(t) = Len(s) + 1
      /\ \A i \in 1..Len(s) : t[i] = s[i]
      /\ t[Len(s) + 1] = k
  OBVIOUS
<1>2. ASSUME NEW i \in Nat \ {0}, EndsFrom(s, i)
      PROVE  EndsFrom(t, i)
  <2>1. PICK j \in i..Len(s) : s[j] \in Ending
    BY <1>2 DEF EndsFrom
  <2>2. j \in i..Len(t) /\ t[j] = s[j]
    BY <1>1, <2>1
  <2> QED
    BY <2>1, <2>2 DEF EndsFrom
<1>3. k \in Ending => \A i \in 1..(Len(s) + 1) : EndsFrom(t, i)
  BY <1>1 DEF EndsFrom
<1> QED
  BY <1>1, <1>2, <1>3

---------------------------------------------------------------------------
(* The types of the connection.                                            *)

LEMMA ConnectionTypesInit == ConnectionInit => ConnectionTypes /\ NotBegun
<1> SUFFICES ASSUME ConnectionInit PROVE ConnectionTypes /\ NotBegun
  OBVIOUS
<1>1. BeliefTypes
  <2>1. mail = << >>
    BY DEF ConnectionInit
  <2>2. << >> \in Seq(Kinds)
    OBVIOUS
  <2> QED
    BY <2>1, <2>2 DEF ConnectionInit, BeliefTypes, Places
<1>2. HandTypes
  BY DEF ConnectionInit, HandTypes
<1>3. WorldTypes
  <2>0. others \in 0..Slots /\ knocking = 0
    BY DEF ConnectionInit
  <2>1. others \in 0..Slots /\ knocking \in 0..(Slots - others)
    BY <2>0, SlotsAssumption
  <2>2. net \in BOOLEAN /\ up \in BOOLEAN /\ faults \in 0..MaxFaults
    BY DEF ConnectionInit
  <2> QED
    BY <2>1, <2>2 DEF WorldTypes
<1> QED
  BY <1>1, <1>2, <1>3 DEF ConnectionInit, ConnectionTypes, NotBegun

LEMMA MainTypes ==
    ASSUME ConnectionTypes, NotBegun, MainThread
    PROVE  ConnectionTypes' /\ NotBegun'
<1> USE DEF ConnectionTypes
<1>1. CASE StartClient
  <2>1. BeliefTypes'
    BY <1>1 DEF StartClient, belief, hands, world, Places, BeliefTypes
  <2>2. HandTypes'
    BY <1>1 DEF StartClient, belief, hands, world, HandTypes
  <2>3. WorldTypes'
    BY <1>1 DEF StartClient, belief, hands, world, WorldTypes
  <2>4. NotBegun'
    BY <1>1 DEF StartClient, belief, hands, world, NotBegun
  <2> QED
    BY <2>1, <2>2, <2>3, <2>4
<1>2. CASE Check
  <2>1. BeliefTypes'
    BY <1>2 DEF Check, belief, hands, world, Places, BeliefTypes
  <2>2. HandTypes'
    BY <1>2 DEF Check, belief, hands, world, HandTypes
  <2>3. WorldTypes'
    BY <1>2 DEF Check, belief, hands, world, WorldTypes
  <2>4. NotBegun'
    BY <1>2 DEF Check, belief, hands, world, NotBegun
  <2> QED
    BY <2>1, <2>2, <2>3, <2>4
<1>3. CASE Receive
  <2>1. BeliefTypes'
    BY <1>3, TailOfMail DEF Receive, belief, hands, world, Believed, Lost, BeliefTypes
  <2>2. HandTypes'
    BY <1>3 DEF Receive, belief, hands, world, HandTypes
  <2>3. WorldTypes'
    BY <1>3 DEF Receive, belief, hands, world, WorldTypes
  <2>4. NotBegun'
    BY <1>3 DEF Receive, belief, hands, world, NotBegun
  <2> QED
    BY <2>1, <2>2, <2>3, <2>4
<1>4. CASE NoMore
  <2>1. BeliefTypes'
    BY <1>4 DEF NoMore, belief, hands, world, Places, BeliefTypes
  <2>2. HandTypes'
    BY <1>4 DEF NoMore, belief, hands, world, HandTypes
  <2>3. WorldTypes'
    BY <1>4 DEF NoMore, belief, hands, world, WorldTypes
  <2>4. NotBegun'
    BY <1>4 DEF NoMore, belief, hands, world, NotBegun
  <2> QED
    BY <2>1, <2>2, <2>3, <2>4
<1>5. CASE Look
  <2>1. BeliefTypes'
    BY <1>5 DEF Look, belief, hands, world, Places, BeliefTypes
  <2>2. HandTypes'
    BY <1>5 DEF Look, belief, hands, world, HandTypes
  <2>3. WorldTypes'
    BY <1>5 DEF Look, belief, hands, world, WorldTypes
  <2>4. NotBegun'
    BY <1>5 DEF Look, belief, hands, world, NotBegun
  <2> QED
    BY <2>1, <2>2, <2>3, <2>4
<1>6. CASE Push
  <2>1. BeliefTypes'
    BY <1>6 DEF Push, belief, hands, world, Places, BeliefTypes
  <2>2. HandTypes'
    BY <1>6 DEF Push, belief, hands, world, HandTypes
  <2>3. WorldTypes'
    BY <1>6 DEF Push, belief, hands, world, WorldTypes
  <2>4. NotBegun'
    BY <1>6 DEF Push, belief, hands, world, NotBegun
  <2> QED
    BY <2>1, <2>2, <2>3, <2>4
<1>7. CASE Stop
  <2>1. BeliefTypes'
    <3>1. pc' = "ended" /\ mail' = << >> /\ isconnected' = FALSE
      BY <1>7 DEF Stop, Gone
    <3>2. connection_lost' = connection_lost
      BY <1>7 DEF Stop
    <3>3. << >> \in Seq(Kinds)
      OBVIOUS
    <3> QED
      BY <3>1, <3>2, <3>3 DEF Places, BeliefTypes
  <2>2. HandTypes'
    BY <1>7 DEF Stop, Gone, belief, hands, world, HandTypes
  <2>3. WorldTypes'
    BY <1>7 DEF Stop, Gone, belief, hands, world, WorldTypes
  <2>4. NotBegun'
    BY <1>7 DEF Stop, Gone, belief, hands, world, NotBegun
  <2> QED
    BY <2>1, <2>2, <2>3, <2>4
<1>8. CASE Die
  <2>1. BeliefTypes'
    BY <1>8 DEF Die, Gone, belief, hands, world, Places, BeliefTypes
  <2>2. HandTypes'
    BY <1>8 DEF Die, Gone, belief, hands, world, HandTypes
  <2>3. WorldTypes'
    BY <1>8 DEF Die, Gone, belief, hands, world, WorldTypes
  <2>4. NotBegun'
    BY <1>8 DEF Die, Gone, belief, hands, world, NotBegun
  <2> QED
    BY <2>1, <2>2, <2>3, <2>4
<1>9. CASE NeverStarted
  <2>1. BeliefTypes'
    BY <1>9 DEF NeverStarted, belief, hands, world, Places, BeliefTypes
  <2>2. HandTypes'
    BY <1>9 DEF NeverStarted, belief, hands, world, HandTypes
  <2>3. WorldTypes'
    BY <1>9 DEF NeverStarted, belief, hands, world, WorldTypes
  <2>4. NotBegun'
    BY <1>9 DEF NeverStarted, belief, hands, world, NotBegun
  <2> QED
    BY <2>1, <2>2, <2>3, <2>4
<1> QED
  BY <1>1, <1>2, <1>3, <1>4, <1>5, <1>6, <1>7, <1>8, <1>9 DEF MainThread

LEMMA ClientTypes ==
    ASSUME ConnectionTypes, NotBegun, ClientThread
    PROVE  ConnectionTypes' /\ NotBegun'
<1> USE DEF ConnectionTypes
<1>1. CASE SendRequest
  <2>1. BeliefTypes'
    BY <1>1 DEF SendRequest, belief, hands, world, BeliefTypes
  <2>2. HandTypes'
    BY <1>1 DEF SendRequest, belief, hands, world, HandTypes
  <2>3. WorldTypes'
    BY <1>1 DEF SendRequest, belief, hands, world, WorldTypes
  <2>4. NotBegun'
    BY <1>1 DEF SendRequest, belief, hands, world, NotBegun
  <2> QED
    BY <2>1, <2>2, <2>3, <2>4
<1>2. CASE GiveUp
  <2>1. BeliefTypes'
    BY <1>2, AppendEnds DEF GiveUp, Post, belief, hands, world, Kinds, BeliefTypes
  <2>2. HandTypes'
    BY <1>2 DEF GiveUp, Post, belief, hands, world, HandTypes
  <2>3. WorldTypes'
    BY <1>2 DEF GiveUp, Post, belief, hands, world, WorldTypes
  <2>4. NotBegun'
    BY <1>2 DEF GiveUp, Post, belief, hands, world, NotBegun
  <2> QED
    BY <2>1, <2>2, <2>3, <2>4
<1>3. CASE ClientOnReply
  <2>1. BeliefTypes'
    BY <1>3 DEF ClientOnReply, belief, hands, world, BeliefTypes
  <2>2. HandTypes'
    BY <1>3 DEF ClientOnReply, belief, hands, world, HandTypes
  <2>3. WorldTypes'
    BY <1>3 DEF ClientOnReply, belief, hands, world, WorldTypes
  <2>4. NotBegun'
    BY <1>3 DEF ClientOnReply, belief, hands, world, NotBegun
  <2> QED
    BY <2>1, <2>2, <2>3, <2>4
<1>4. CASE ClientOnRefusal
  <2>1. BeliefTypes'
    BY <1>4, AppendEnds DEF ClientOnRefusal, Post, belief, hands, world, Kinds, BeliefTypes
  <2>2. HandTypes'
    BY <1>4 DEF ClientOnRefusal, Post, belief, hands, world, HandTypes
  <2>3. WorldTypes'
    BY <1>4 DEF ClientOnRefusal, Post, belief, hands, world, WorldTypes
  <2>4. NotBegun'
    BY <1>4 DEF ClientOnRefusal, Post, belief, hands, world, NotBegun
  <2> QED
    BY <2>1, <2>2, <2>3, <2>4
<1>5. CASE ClientOnAccepted
  <2>1. BeliefTypes'
    BY <1>5, AppendEnds DEF ClientOnAccepted, Post, belief, hands, world, Kinds, BeliefTypes
  <2>2. HandTypes'
    BY <1>5 DEF ClientOnAccepted, Post, belief, hands, world, HandTypes
  <2>3. WorldTypes'
    BY <1>5 DEF ClientOnAccepted, Post, belief, hands, world, WorldTypes
  <2>4. NotBegun'
    BY <1>5 DEF ClientOnAccepted, Post, belief, hands, world, NotBegun
  <2> QED
    BY <2>1, <2>2, <2>3, <2>4
<1>6. CASE ClientDead
  <2>1. BeliefTypes'
    BY <1>6, AppendEnds DEF ClientDead, Post, belief, hands, world, Kinds, BeliefTypes
  <2>2. HandTypes'
    BY <1>6 DEF ClientDead, Post, belief, hands, world, HandTypes
  <2>3. WorldTypes'
    BY <1>6 DEF ClientDead, Post, belief, hands, world, WorldTypes
  <2>4. NotBegun'
    BY <1>6 DEF ClientDead, Post, belief, hands, world, NotBegun
  <2> QED
    BY <2>1, <2>2, <2>3, <2>4
<1> QED
  BY <1>1, <1>2, <1>3, <1>4, <1>5, <1>6 DEF ClientThread

LEMMA ServerTypes ==
    ASSUME ConnectionTypes, NotBegun, ServerThread
    PROVE  ConnectionTypes' /\ NotBegun'
<1> USE DEF ConnectionTypes
<1>1. CASE ServerOnOpen
  <2>1. BeliefTypes'
    BY <1>1 DEF ServerOnOpen, belief, hands, world, BeliefTypes
  <2>2. HandTypes'
    BY <1>1 DEF ServerOnOpen, belief, hands, world, Refusals, HandTypes
  <2>3. WorldTypes'
    BY <1>1 DEF ServerOnOpen, belief, hands, world, WorldTypes
  <2>4. NotBegun'
    BY <1>1 DEF ServerOnOpen, belief, hands, world, NotBegun
  <2> QED
    BY <2>1, <2>2, <2>3, <2>4
<1>2. CASE ServerOnAsk
  <2>1. BeliefTypes'
    BY <1>2 DEF ServerOnAsk, belief, hands, world, BeliefTypes
  <2>2. HandTypes'
    BY <1>2 DEF ServerOnAsk, belief, hands, world, HandTypes
  <2>3. WorldTypes'
    BY <1>2 DEF ServerOnAsk, belief, hands, world, WorldTypes
  <2>4. NotBegun'
    BY <1>2 DEF ServerOnAsk, belief, hands, world, NotBegun
  <2> QED
    BY <2>1, <2>2, <2>3, <2>4
<1>3. CASE ServerOnNewIncoming
  <2>1. BeliefTypes'
    BY <1>3 DEF ServerOnNewIncoming, belief, hands, world, BeliefTypes
  <2>2. HandTypes'
    BY <1>3 DEF ServerOnNewIncoming, belief, hands, world, HandTypes
  <2>3. WorldTypes'
    BY <1>3 DEF ServerOnNewIncoming, belief, hands, world, WorldTypes
  <2>4. NotBegun'
    BY <1>3 DEF ServerOnNewIncoming, belief, hands, world, NotBegun
  <2> QED
    BY <2>1, <2>2, <2>3, <2>4
<1>4. CASE ServerDead
  <2>1. BeliefTypes'
    BY <1>4 DEF ServerDead, belief, hands, world, BeliefTypes
  <2>2. HandTypes'
    BY <1>4 DEF ServerDead, belief, hands, world, HandTypes
  <2>3. WorldTypes'
    BY <1>4 DEF ServerDead, belief, hands, world, WorldTypes
  <2>4. NotBegun'
    BY <1>4 DEF ServerDead, belief, hands, world, NotBegun
  <2> QED
    BY <2>1, <2>2, <2>3, <2>4
<1> QED
  BY <1>1, <1>2, <1>3, <1>4 DEF ServerThread

LEMMA EnvironmentTypes ==
    ASSUME ConnectionTypes, NotBegun, Environment
    PROVE  ConnectionTypes' /\ NotBegun'
<1> USE DEF ConnectionTypes
<1>1. CASE OthersKnock
  <2>1. BeliefTypes'
    BY <1>1 DEF OthersKnock, belief, hands, world, BeliefTypes
  <2>2. HandTypes'
    BY <1>1 DEF OthersKnock, belief, hands, world, HandTypes
  <2>3. WorldTypes'
    BY <1>1, SlotsAssumption DEF OthersKnock, belief, hands, world, Free, WorldTypes
  <2>4. NotBegun'
    BY <1>1 DEF OthersKnock, belief, hands, world, NotBegun
  <2> QED
    BY <2>1, <2>2, <2>3, <2>4
<1>2. CASE OthersJoin
  <2>1. BeliefTypes'
    BY <1>2 DEF OthersJoin, belief, hands, world, BeliefTypes
  <2>2. HandTypes'
    BY <1>2 DEF OthersJoin, belief, hands, world, HandTypes
  <2>3. WorldTypes'
    BY <1>2, SlotsAssumption DEF OthersJoin, belief, hands, world, WorldTypes
  <2>4. NotBegun'
    BY <1>2 DEF OthersJoin, belief, hands, world, NotBegun
  <2> QED
    BY <2>1, <2>2, <2>3, <2>4
<1>3. CASE OthersLeave
  <2>1. BeliefTypes'
    BY <1>3 DEF OthersLeave, belief, hands, world, BeliefTypes
  <2>2. HandTypes'
    BY <1>3 DEF OthersLeave, belief, hands, world, HandTypes
  <2>3. WorldTypes'
    BY <1>3, SlotsAssumption DEF OthersLeave, belief, hands, world, WorldTypes
  <2>4. NotBegun'
    BY <1>3 DEF OthersLeave, belief, hands, world, NotBegun
  <2> QED
    BY <2>1, <2>2, <2>3, <2>4
<1>4. CASE Break
  <2>1. BeliefTypes'
    BY <1>4 DEF Break, belief, hands, world, BeliefTypes
  <2>2. HandTypes'
    BY <1>4 DEF Break, belief, hands, world, HandTypes
  <2>3. WorldTypes'
    <3>1. faults > 0 /\ faults' = faults - 1
      BY <1>4 DEF Break, Fault
    <3>2. faults' \in 0..MaxFaults
      BY <3>1, MaxFaultsAssumption DEF WorldTypes
    <3>3. others' \in 0..Slots /\ knocking' \in 0..(Slots - others')
      BY <1>4, SlotsAssumption DEF Break, WorldTypes
    <3>4. net' \in BOOLEAN /\ up' \in BOOLEAN
      BY <1>4 DEF Break, WorldTypes
    <3> QED
      BY <3>2, <3>3, <3>4 DEF WorldTypes
  <2>4. NotBegun'
    BY <1>4 DEF Break, belief, hands, world, NotBegun
  <2> QED
    BY <2>1, <2>2, <2>3, <2>4
<1>5. CASE Repair
  <2>1. BeliefTypes'
    BY <1>5 DEF Repair, belief, hands, world, BeliefTypes
  <2>2. HandTypes'
    BY <1>5 DEF Repair, belief, hands, world, HandTypes
  <2>3. WorldTypes'
    BY <1>5 DEF Repair, belief, hands, world, WorldTypes
  <2>4. NotBegun'
    BY <1>5 DEF Repair, belief, hands, world, NotBegun
  <2> QED
    BY <2>1, <2>2, <2>3, <2>4
<1>6. CASE Crash
  <2>1. BeliefTypes'
    BY <1>6 DEF Crash, ServerGone, belief, hands, world, BeliefTypes
  <2>2. HandTypes'
    BY <1>6 DEF Crash, ServerGone, belief, hands, world, HandTypes
  <2>3. WorldTypes'
    <3>1. faults > 0 /\ faults' = faults - 1
      BY <1>6 DEF Crash, ServerGone, Fault
    <3>2. faults' \in 0..MaxFaults
      BY <3>1, MaxFaultsAssumption DEF WorldTypes
    <3>a. others' = 0 /\ knocking' = 0
      BY <1>6 DEF Crash, ServerGone
    <3>3. others' \in 0..Slots /\ knocking' \in 0..(Slots - others')
      BY <3>a, SlotsAssumption
    <3>4. net' \in BOOLEAN /\ up' \in BOOLEAN
      BY <1>6 DEF Crash, ServerGone, WorldTypes
    <3> QED
      BY <3>2, <3>3, <3>4 DEF WorldTypes
  <2>4. NotBegun'
    BY <1>6 DEF Crash, ServerGone, belief, hands, world, NotBegun
  <2> QED
    BY <2>1, <2>2, <2>3, <2>4
<1>7. CASE Quit
  <2>1. BeliefTypes'
    BY <1>7, AppendEnds DEF Quit, ServerGone, Post, belief, hands, world, Kinds, BeliefTypes
  <2>2. HandTypes'
    BY <1>7 DEF Quit, ServerGone, Post, belief, hands, world, HandTypes
  <2>3. WorldTypes'
    <3>1. faults > 0 /\ faults' = faults - 1
      BY <1>7 DEF Quit, ServerGone, Post, Fault
    <3>2. faults' \in 0..MaxFaults
      BY <3>1, MaxFaultsAssumption DEF WorldTypes
    <3>a. others' = 0 /\ knocking' = 0
      BY <1>7 DEF Quit, ServerGone
    <3>3. others' \in 0..Slots /\ knocking' \in 0..(Slots - others')
      BY <3>a, SlotsAssumption
    <3>4. net' \in BOOLEAN /\ up' \in BOOLEAN
      BY <1>7 DEF Quit, ServerGone, Post, WorldTypes
    <3> QED
      BY <3>2, <3>3, <3>4 DEF WorldTypes
  <2>4. NotBegun'
    BY <1>7 DEF Quit, ServerGone, Post, belief, hands, world, NotBegun
  <2> QED
    BY <2>1, <2>2, <2>3, <2>4
<1>8. CASE Restart
  <2>1. BeliefTypes'
    BY <1>8 DEF Restart, belief, hands, world, BeliefTypes
  <2>2. HandTypes'
    BY <1>8 DEF Restart, belief, hands, world, HandTypes
  <2>3. WorldTypes'
    BY <1>8 DEF Restart, belief, hands, world, WorldTypes
  <2>4. NotBegun'
    BY <1>8 DEF Restart, belief, hands, world, NotBegun
  <2> QED
    BY <2>1, <2>2, <2>3, <2>4
<1> QED
  BY <1>1, <1>2, <1>3, <1>4, <1>5, <1>6, <1>7, <1>8 DEF Environment

LEMMA TypesStep ==
    ASSUME ConnectionTypes, NotBegun, ConnectionStep
    PROVE  ConnectionTypes' /\ NotBegun'
<1>1. CASE UNCHANGED connectionVars
  <2> USE <1>1 DEF connectionVars, belief, hands, world, ConnectionTypes
  <2>1. BeliefTypes' BY DEF BeliefTypes
  <2>2. HandTypes' BY DEF HandTypes
  <2>3. WorldTypes' BY DEF WorldTypes
  <2>4. NotBegun' BY DEF NotBegun
  <2> QED
    BY <2>1, <2>2, <2>3, <2>4
<1> QED
  BY <1>1, MainTypes, ClientTypes, ServerTypes, EnvironmentTypes
  DEF ConnectionStep, Elsewhere

---------------------------------------------------------------------------
(* The belief.                                                             *)

\* A step that leaves the flags and the mail alone and ends no connection.
LEMMA QuietStep ==
    ASSUME Sound, mail' = mail, isconnected' = isconnected,
           connection_lost' = connection_lost,
           peer = "connected" => peer' = "connected",
           attempt' = TRUE => peer' = "none"
    PROVE  Sound'
  BY DEF Sound, EndsFrom

\* A step that adds news to the mail: of the end, if it ends a connection.
LEMMA NewsStep ==
    ASSUME Sound, BeliefTypes, NEW k \in Kinds,
           mail' = Append(mail, k), isconnected' = isconnected,
           connection_lost' = connection_lost,
           peer = "connected" => peer' = "connected" \/ k \in Ending,
           k = "accepted" => peer' = "connected",
           attempt' = TRUE => peer' = "none"
    PROVE  Sound'
<1>1. mail \in Seq(Kinds) /\ Len(mail) \in Nat
  BY DEF BeliefTypes
<1>2. /\ Len(mail') = Len(mail) + 1
      /\ \A i \in 1..Len(mail) : mail'[i] = mail[i]
      /\ mail'[Len(mail) + 1] = k
      /\ \A i \in Nat \ {0} : EndsFrom(mail, i) => EndsFrom(mail', i)
      /\ k \in Ending => \A i \in 1..(Len(mail) + 1) : EndsFrom(mail', i)
  BY <1>1, AppendEnds
<1>3. isconnected' = TRUE /\ connection_lost' = FALSE =>
          peer' = "connected" \/ EndsFrom(mail', 1)
  BY <1>1, <1>2 DEF Sound
<1>4. ASSUME NEW i \in 1..Len(mail'), mail'[i] = "accepted"
      PROVE  peer' = "connected" \/ EndsFrom(mail', i)
  <2>1. CASE i = Len(mail) + 1
    BY <1>2, <1>4, <2>1
  <2>2. CASE i \in 1..Len(mail)
    <3>1. i \in Nat \ {0} /\ i \in 1..(Len(mail) + 1)
      BY <1>1, <2>2
    <3> QED
      BY <1>2, <1>4, <2>2, <3>1 DEF Sound
  <2> QED
    BY <1>1, <1>2, <2>1, <2>2
<1> QED
  BY <1>3, <1>4 DEF Sound

LEMMA ReceiveSound ==
    ASSUME Sound, BeliefTypes, Receive
    PROVE  Sound'
<1>1. mail \in Seq(Kinds) /\ mail # << >> /\ mail' = Tail(mail)
  BY DEF BeliefTypes, Receive
<1>2. /\ Head(mail) = mail[1] /\ Len(mail) \in Nat \ {0}
      /\ Len(mail') = Len(mail) - 1
      /\ \A i \in 1..Len(mail') : mail'[i] = mail[i + 1]
  BY <1>1, TailOfMail
<1>3. /\ EndsFrom(mail, 1) /\ mail[1] \notin Ending => EndsFrom(mail', 1)
      /\ \A i \in 1..Len(mail') : EndsFrom(mail, i + 1) => EndsFrom(mail', i)
  BY <1>1, TailEnds
<1>4. peer' = peer /\ attempt' = attempt
  BY DEF Receive, hands
<1>5. ASSUME isconnected' = TRUE, connection_lost' = FALSE
      PROVE  peer' = "connected" \/ EndsFrom(mail', 1)
  <2>1. mail[1] \notin Ending
    BY <1>2, <1>5 DEF Receive, Believed, Lost, Ending
  <2>2. mail[1] = "accepted" \/ (isconnected = TRUE /\ connection_lost = FALSE)
    BY <1>2, <1>5 DEF Receive, Believed, Lost, BeliefTypes
  <2>3. peer = "connected" \/ EndsFrom(mail, 1)
    BY <1>2, <2>2 DEF Sound
  <2> QED
    BY <1>3, <1>4, <2>1, <2>3
<1>6. ASSUME NEW i \in 1..Len(mail'), mail'[i] = "accepted"
      PROVE  peer' = "connected" \/ EndsFrom(mail', i)
  <2>1. i + 1 \in 1..Len(mail) /\ mail[i + 1] = "accepted"
    BY <1>2, <1>6
  <2> QED
    BY <1>3, <1>4, <2>1 DEF Sound
<1> QED
  BY <1>4, <1>5, <1>6 DEF Sound

LEMMA MainSound ==
    ASSUME ConnectionTypes, NotBegun, Sound, MainThread,
           doubled' = FALSE, pc' # "ended"
    PROVE  Sound'
<1> USE DEF ConnectionTypes
<1>1. CASE StartClient
  <2>1. mail' = mail /\ isconnected' = isconnected /\ connection_lost' = connection_lost
    BY <1>1 DEF StartClient, belief, hands, world
  <2>2. /\ peer = "connected" => peer' = "connected"
        /\ attempt' = TRUE => peer' = "none"
    BY <1>1 DEF StartClient, belief, hands, world, NotBegun, HandTypes
  <2> QED
    BY <2>1, <2>2, QuietStep
<1>2. CASE Check
  <2>1. mail' = mail /\ isconnected' = isconnected /\ connection_lost' = connection_lost
    BY <1>2 DEF Check, belief, hands, world
  <2>2. /\ peer = "connected" => peer' = "connected"
        /\ attempt' = TRUE => peer' = "none"
    BY <1>2 DEF Check, belief, hands, world, Sound, HandTypes
  <2> QED
    BY <2>1, <2>2, QuietStep
<1>3. CASE Receive
  BY <1>3, ReceiveSound
<1>4. CASE NoMore
  <2>1. mail' = mail /\ isconnected' = isconnected /\ connection_lost' = connection_lost
    BY <1>4 DEF NoMore, belief, hands, world
  <2>2. /\ peer = "connected" => peer' = "connected"
        /\ attempt' = TRUE => peer' = "none"
    BY <1>4 DEF NoMore, belief, hands, world, Sound, HandTypes
  <2> QED
    BY <2>1, <2>2, QuietStep
<1>5. CASE Look
  <2>1. mail' = mail /\ isconnected' = isconnected /\ connection_lost' = connection_lost
    BY <1>5 DEF Look, belief, hands, world
  <2>2. /\ peer = "connected" => peer' = "connected"
        /\ attempt' = TRUE => peer' = "none"
    BY <1>5 DEF Look, belief, hands, world, Sound, HandTypes
  <2> QED
    BY <2>1, <2>2, QuietStep
<1>6. CASE Push
  <2>1. mail' = mail /\ isconnected' = isconnected /\ connection_lost' = connection_lost
    BY <1>6 DEF Push, belief, hands, world
  <2>2. /\ peer = "connected" => peer' = "connected"
        /\ attempt' = TRUE => peer' = "none"
    BY <1>6 DEF Push, belief, hands, world, Sound, HandTypes
  <2> QED
    BY <2>1, <2>2, QuietStep
<1>7. ~Stop /\ ~Die /\ ~NeverStarted
  BY DEF Stop, Die, NeverStarted, Gone
<1> QED
  BY <1>1, <1>2, <1>3, <1>4, <1>5, <1>6, <1>7 DEF MainThread

LEMMA ClientSound ==
    ASSUME ConnectionTypes, Sound, ClientThread
    PROVE  Sound'
<1> USE DEF ConnectionTypes
<1>1. CASE SendRequest
  <2>1. mail' = mail /\ isconnected' = isconnected /\ connection_lost' = connection_lost
    BY <1>1 DEF SendRequest, belief, hands, world
  <2>2. /\ peer = "connected" => peer' = "connected"
        /\ attempt' = TRUE => peer' = "none"
    BY <1>1 DEF SendRequest, belief, hands, world, Sound, HandTypes
  <2> QED
    BY <2>1, <2>2, QuietStep
<1>2. CASE GiveUp
  <2>1. isconnected' = isconnected /\ connection_lost' = connection_lost
    BY <1>2 DEF GiveUp, belief
  <2>2. mail' = Append(mail, "failed") /\ "failed" \in Kinds
    BY <1>2 DEF GiveUp, Post, Kinds
  <2>3. /\ peer = "connected" => peer' = "connected" \/ "failed" \in Ending
        /\ "failed" = "accepted" => peer' = "connected"
        /\ attempt' = TRUE => peer' = "none"
    BY <1>2 DEF GiveUp, Refusals, belief, hands, world, Ending, Sound, HandTypes
  <2> QED
    BY <2>1, <2>2, <2>3, NewsStep
<1>3. CASE ClientOnReply
  <2>1. mail' = mail /\ isconnected' = isconnected /\ connection_lost' = connection_lost
    BY <1>3 DEF ClientOnReply, belief, hands, world
  <2>2. /\ peer = "connected" => peer' = "connected"
        /\ attempt' = TRUE => peer' = "none"
    BY <1>3 DEF ClientOnReply, belief, hands, world, Sound, HandTypes
  <2> QED
    BY <2>1, <2>2, QuietStep
<1>4. CASE ClientOnRefusal /\ attempt
  <2>1. isconnected' = isconnected /\ connection_lost' = connection_lost
    BY <1>4 DEF ClientOnRefusal, belief
  <2>2. mail' = Append(mail, reply) /\ reply \in Kinds
    BY <1>4 DEF ClientOnRefusal, Post, Kinds
  <2>3. /\ peer = "connected" => peer' = "connected" \/ reply \in Ending
        /\ reply = "accepted" => peer' = "connected"
        /\ attempt' = TRUE => peer' = "none"
    BY <1>4 DEF ClientOnRefusal, Refusals, belief, hands, world, Ending, Sound, HandTypes
  <2> QED
    BY <2>1, <2>2, <2>3, NewsStep
<1>5. CASE ClientOnRefusal /\ ~attempt
  <2>1. mail' = mail /\ isconnected' = isconnected /\ connection_lost' = connection_lost
    BY <1>5 DEF ClientOnRefusal, belief, hands, world
  <2>2. /\ peer = "connected" => peer' = "connected"
        /\ attempt' = TRUE => peer' = "none"
    BY <1>5 DEF ClientOnRefusal, belief, hands, world, Sound, HandTypes
  <2> QED
    BY <2>1, <2>2, QuietStep
<1>6. CASE ClientOnAccepted
  <2>1. isconnected' = isconnected /\ connection_lost' = connection_lost
    BY <1>6 DEF ClientOnAccepted, belief
  <2>2. mail' = Append(mail, "accepted") /\ "accepted" \in Kinds
    BY <1>6 DEF ClientOnAccepted, Post, Kinds
  <2>3. /\ peer = "connected" => peer' = "connected" \/ "accepted" \in Ending
        /\ "accepted" = "accepted" => peer' = "connected"
        /\ attempt' = TRUE => peer' = "none"
    BY <1>6 DEF ClientOnAccepted, Refusals, belief, hands, world, Ending, Sound, HandTypes
  <2> QED
    BY <2>1, <2>2, <2>3, NewsStep
<1>7. CASE ClientDead
  <2>1. PICK k \in {"failed", "lost"} :
            mail' = Append(mail, k) /\ (peer = "connected" => k = "lost")
    BY <1>7 DEF ClientDead, Post
  <2>2. isconnected' = isconnected /\ connection_lost' = connection_lost
    BY <1>7 DEF ClientDead, belief
  <2>3. attempt' = TRUE => peer' = "none"
    BY <1>7 DEF ClientDead
  <2>4. k \in Kinds /\ k # "accepted" /\ (k = "lost" => k \in Ending)
    BY <2>1 DEF Kinds, Ending
  <2> QED
    BY <2>1, <2>2, <2>3, <2>4, NewsStep
<1> QED
  BY <1>1, <1>2, <1>3, <1>4, <1>5, <1>6, <1>7 DEF ClientThread

LEMMA ServerSound ==
    ASSUME ConnectionTypes, Sound, ServerThread
    PROVE  Sound'
<1> USE DEF ConnectionTypes
<1>1. CASE ServerOnOpen
  <2>1. mail' = mail /\ isconnected' = isconnected /\ connection_lost' = connection_lost
    BY <1>1 DEF ServerOnOpen, belief, hands, world
  <2>2. /\ peer = "connected" => peer' = "connected"
        /\ attempt' = TRUE => peer' = "none"
    BY <1>1 DEF ServerOnOpen, belief, hands, world, Sound, HandTypes
  <2> QED
    BY <2>1, <2>2, QuietStep
<1>2. CASE ServerOnAsk
  <2>1. mail' = mail /\ isconnected' = isconnected /\ connection_lost' = connection_lost
    BY <1>2 DEF ServerOnAsk, belief, hands, world
  <2>2. /\ peer = "connected" => peer' = "connected"
        /\ attempt' = TRUE => peer' = "none"
    BY <1>2 DEF ServerOnAsk, belief, hands, world, Sound, HandTypes
  <2> QED
    BY <2>1, <2>2, QuietStep
<1>3. CASE ServerOnNewIncoming
  <2>1. mail' = mail /\ isconnected' = isconnected /\ connection_lost' = connection_lost
    BY <1>3 DEF ServerOnNewIncoming, belief, hands, world
  <2>2. /\ peer = "connected" => peer' = "connected"
        /\ attempt' = TRUE => peer' = "none"
    BY <1>3 DEF ServerOnNewIncoming, belief, hands, world, Sound, HandTypes
  <2> QED
    BY <2>1, <2>2, QuietStep
<1>4. CASE ServerDead
  <2>1. mail' = mail /\ isconnected' = isconnected /\ connection_lost' = connection_lost
    BY <1>4 DEF ServerDead, belief, hands, world
  <2>2. /\ peer = "connected" => peer' = "connected"
        /\ attempt' = TRUE => peer' = "none"
    BY <1>4 DEF ServerDead, belief, hands, world, Sound, HandTypes
  <2> QED
    BY <2>1, <2>2, QuietStep
<1> QED
  BY <1>1, <1>2, <1>3, <1>4 DEF ServerThread

LEMMA EnvironmentSound ==
    ASSUME ConnectionTypes, Sound, Environment
    PROVE  Sound'
<1> USE DEF ConnectionTypes
<1>1. CASE OthersKnock
  <2>1. mail' = mail /\ isconnected' = isconnected /\ connection_lost' = connection_lost
    BY <1>1 DEF OthersKnock, belief, hands, world
  <2>2. /\ peer = "connected" => peer' = "connected"
        /\ attempt' = TRUE => peer' = "none"
    BY <1>1 DEF OthersKnock, belief, hands, world, Sound, HandTypes
  <2> QED
    BY <2>1, <2>2, QuietStep
<1>2. CASE OthersJoin
  <2>1. mail' = mail /\ isconnected' = isconnected /\ connection_lost' = connection_lost
    BY <1>2 DEF OthersJoin, belief, hands, world
  <2>2. /\ peer = "connected" => peer' = "connected"
        /\ attempt' = TRUE => peer' = "none"
    BY <1>2 DEF OthersJoin, belief, hands, world, Sound, HandTypes
  <2> QED
    BY <2>1, <2>2, QuietStep
<1>3. CASE OthersLeave
  <2>1. mail' = mail /\ isconnected' = isconnected /\ connection_lost' = connection_lost
    BY <1>3 DEF OthersLeave, belief, hands, world
  <2>2. /\ peer = "connected" => peer' = "connected"
        /\ attempt' = TRUE => peer' = "none"
    BY <1>3 DEF OthersLeave, belief, hands, world, Sound, HandTypes
  <2> QED
    BY <2>1, <2>2, QuietStep
<1>4. CASE Break
  <2>1. mail' = mail /\ isconnected' = isconnected /\ connection_lost' = connection_lost
    BY <1>4 DEF Break, belief, hands, world
  <2>2. /\ peer = "connected" => peer' = "connected"
        /\ attempt' = TRUE => peer' = "none"
    BY <1>4 DEF Break, belief, hands, world, Sound, HandTypes
  <2> QED
    BY <2>1, <2>2, QuietStep
<1>5. CASE Repair
  <2>1. mail' = mail /\ isconnected' = isconnected /\ connection_lost' = connection_lost
    BY <1>5 DEF Repair, belief, hands, world
  <2>2. /\ peer = "connected" => peer' = "connected"
        /\ attempt' = TRUE => peer' = "none"
    BY <1>5 DEF Repair, belief, hands, world, Sound, HandTypes
  <2> QED
    BY <2>1, <2>2, QuietStep
<1>6. CASE Crash
  <2>1. mail' = mail /\ isconnected' = isconnected /\ connection_lost' = connection_lost
    BY <1>6 DEF Crash, ServerGone, belief, hands, world
  <2>2. /\ peer = "connected" => peer' = "connected"
        /\ attempt' = TRUE => peer' = "none"
    BY <1>6 DEF Crash, ServerGone, belief, hands, world, Sound, HandTypes
  <2> QED
    BY <2>1, <2>2, QuietStep
<1>7. CASE Quit
  <2>1. isconnected' = isconnected /\ connection_lost' = connection_lost
    BY <1>7 DEF Quit, ServerGone, belief
  <2>2. mail' = Append(mail, "bye") /\ "bye" \in Kinds
    BY <1>7 DEF Quit, Post, Kinds
  <2>3. /\ peer = "connected" => peer' = "connected" \/ "bye" \in Ending
        /\ "bye" = "accepted" => peer' = "connected"
        /\ attempt' = TRUE => peer' = "none"
    BY <1>7 DEF Quit, ServerGone, Refusals, belief, hands, world, Ending, Sound, HandTypes
  <2> QED
    BY <2>1, <2>2, <2>3, NewsStep
<1>8. CASE Restart
  <2>1. mail' = mail /\ isconnected' = isconnected /\ connection_lost' = connection_lost
    BY <1>8 DEF Restart, belief, hands, world
  <2>2. /\ peer = "connected" => peer' = "connected"
        /\ attempt' = TRUE => peer' = "none"
    BY <1>8 DEF Restart, belief, hands, world, Sound, HandTypes
  <2> QED
    BY <2>1, <2>2, QuietStep
<1> QED
  BY <1>1, <1>2, <1>3, <1>4, <1>5, <1>6, <1>7, <1>8 DEF Environment

\* Once TRUE, doubled stays so; once ended, the program stays so.
LEMMA NoWayBack ==
    ASSUME ConnectionTypes, ConnectionStep
    PROVE  /\ doubled' = FALSE => doubled = FALSE
           /\ pc = "ended" => pc' = "ended"
<1>1. CASE UNCHANGED connectionVars
  BY <1>1 DEF connectionVars
<1>2. CASE MainThread
  BY <1>2 DEF MainThread, StartClient, Check, Receive, NoMore, Look, Push, Stop, Die,
              Gone, NeverStarted, ConnectionTypes, HandTypes
<1>3. CASE ClientThread
  BY <1>3 DEF ClientThread, SendRequest, GiveUp, ClientOnReply, ClientOnRefusal,
              ClientOnAccepted, ClientDead
<1>4. CASE ServerThread
  BY <1>4 DEF ServerThread, ServerOnOpen, ServerOnAsk, ServerOnNewIncoming, ServerDead
<1>5. CASE Environment
  BY <1>5 DEF Environment, OthersKnock, OthersJoin, OthersLeave, Break, Repair,
              Crash, Quit, ServerGone, Restart
<1> QED
  BY <1>1, <1>2, <1>3, <1>4, <1>5 DEF ConnectionStep, Elsewhere

LEMMA InvInit == ConnectionInit => ConnectionInv
<1> SUFFICES ASSUME ConnectionInit PROVE ConnectionInv
  OBVIOUS
<1>1. Sound
  <2>1. attempt = FALSE /\ isconnected = FALSE /\ mail = << >>
    BY DEF ConnectionInit
  <2>2. Len(mail) = 0
    BY <2>1
  <2>3. \A i \in 1..Len(mail) : FALSE
    BY <2>2
  <2> QED
    BY <2>1, <2>3 DEF Sound
<1> QED
  BY <1>1, ConnectionTypesInit DEF ConnectionInv

LEMMA InvStep ==
    ASSUME ConnectionInv, ConnectionStep
    PROVE  ConnectionInv'
<1>1. ConnectionTypes' /\ NotBegun'
  BY TypesStep DEF ConnectionInv
<1>2. ASSUME doubled' = FALSE, pc' # "ended"
      PROVE  Sound'
  <2>1. Sound
    BY <1>2, NoWayBack DEF ConnectionInv
  <2>2. CASE UNCHANGED connectionVars
    BY <2>1, <2>2 DEF connectionVars, belief, hands, Sound, EndsFrom
  <2> QED
    BY <1>2, <2>1, <2>2, MainSound, ClientSound, ServerSound, EnvironmentSound
    DEF ConnectionInv, ConnectionStep, Elsewhere
<1> QED
  BY <1>1, <1>2 DEF ConnectionInv

LEMMA InvBelief == ConnectionInv => BeliefSound
<1> SUFFICES ASSUME ConnectionInv, isconnected, ~connection_lost, ~doubled, pc # "ended"
             PROVE  peer = "connected" \/ Told("lost") \/ Told("bye")
  BY DEF BeliefSound
<1>1. isconnected = TRUE /\ connection_lost = FALSE /\ doubled = FALSE
  BY DEF ConnectionInv, ConnectionTypes, BeliefTypes, HandTypes
<1>2. Sound /\ mail \in Seq(Kinds)
  BY <1>1 DEF ConnectionInv, ConnectionTypes, BeliefTypes
<1>3. CASE EndsFrom(mail, 1)
  <2>1. PICK j \in 1..Len(mail) : mail[j] \in Ending
    BY <1>3 DEF EndsFrom
  <2>2. j \in DOMAIN mail
    BY <1>2, <2>1
  <2> QED
    BY <2>1, <2>2 DEF Told, Ending
<1> QED
  BY <1>1, <1>2, <1>3 DEF Sound

---------------------------------------------------------------------------
(* Giving up.                                                              *)

\* No connection, no attempt, none to come: the program looks after its receivers
\* already, and check was not told of a loss, the one thing that makes it call
\* Connect (client.cpp:140-148).
Over ==
    /\ pc \notin {"begin", "look", "push"}
    /\ peer = "none" /\ ~attempt /\ ~connection_lost /\ ~Told("lost")

\* A client that is over stays so.
GivesUpForGood == [][Over => Over']_connectionVars

LEMMA OverStep ==
    ASSUME ConnectionTypes, Over, ConnectionStep
    PROVE  Over'
<1>1. /\ peer = "none" /\ attempt = FALSE /\ connection_lost = FALSE
      /\ pc \notin {"begin", "look", "push"} /\ ~Told("lost")
  BY DEF Over, ConnectionTypes, HandTypes, BeliefTypes
<1>2. mail \in Seq(Kinds)
  BY DEF ConnectionTypes, BeliefTypes
<1>3. SUFFICES /\ peer' = "none" /\ attempt' = FALSE /\ connection_lost' = FALSE
               /\ pc' \notin {"begin", "look", "push"} /\ ~Told("lost")'
  BY DEF Over
<1>4. CASE Receive
  <2>1. \A i \in DOMAIN mail : mail[i] # "lost"
    BY <1>1 DEF Told
  <2>2. Head(mail) # "lost" /\ \A i \in DOMAIN Tail(mail) : Tail(mail)[i] # "lost"
    BY <1>2, <1>4, <2>1 DEF Receive
  <2>3. connection_lost' = FALSE /\ ~Told("lost")'
    BY <1>1, <1>4, <2>2 DEF Receive, Lost, Told
  <2> QED
    BY <1>1, <1>4, <2>3 DEF Receive, hands
<1>5. CASE UNCHANGED mail /\ ~Receive
  <2>1. ~Told("lost")'
    BY <1>1, <1>5 DEF Told
  <2>2. CASE UNCHANGED connectionVars
    BY <1>1, <2>1, <2>2 DEF connectionVars, belief, hands
  <2>3. CASE MainThread
    <3>1. CASE Check BY <1>1, <2>1, <3>1 DEF Check, belief, hands
    <3>2. CASE NoMore BY <1>1, <2>1, <3>2 DEF NoMore, belief, hands
    <3>3. CASE Stop BY <1>1, <2>1, <3>3 DEF Stop, Gone
    <3>4. CASE Die BY <1>1, <2>1, <3>4 DEF Die, Gone, belief
    <3>5. ~StartClient /\ ~Look /\ ~Push /\ ~NeverStarted
      BY <1>1 DEF StartClient, Look, Push, NeverStarted
    <3> QED
      BY <1>5, <2>3, <3>1, <3>2, <3>3, <3>4, <3>5 DEF MainThread
  <2>4. CASE ClientThread
    <3>1. CASE ClientOnReply BY <1>1, <2>1, <3>1 DEF ClientOnReply, belief
    <3>2. CASE ClientOnRefusal BY <1>1, <2>1, <3>2 DEF ClientOnRefusal, belief
    <3>3. ~SendRequest /\ ~GiveUp /\ ~ClientOnAccepted /\ ~ClientDead
      BY <1>1 DEF SendRequest, GiveUp, ClientOnAccepted, ClientDead
    <3> QED
      BY <2>4, <3>1, <3>2, <3>3 DEF ClientThread
  <2>5. CASE ServerThread
    <3>1. CASE ServerOnOpen BY <1>1, <2>1, <3>1 DEF ServerOnOpen, belief
    <3>2. CASE ServerDead BY <1>1, <2>1, <3>2 DEF ServerDead, belief
    <3>3. ~ServerOnAsk /\ ~ServerOnNewIncoming
      BY <1>1 DEF ServerOnAsk, ServerOnNewIncoming
    <3> QED
      BY <2>5, <3>1, <3>2, <3>3 DEF ServerThread
  <2>6. CASE Environment
    <3>1. CASE OthersKnock BY <1>1, <2>1, <3>1 DEF OthersKnock, belief, hands
    <3>2. CASE OthersJoin BY <1>1, <2>1, <3>2 DEF OthersJoin, belief, hands
    <3>3. CASE OthersLeave BY <1>1, <2>1, <3>3 DEF OthersLeave, belief, hands
    <3>4. CASE Break BY <1>1, <2>1, <3>4 DEF Break, belief
    <3>5. CASE Repair BY <1>1, <2>1, <3>5 DEF Repair, belief, hands
    <3>6. CASE Crash BY <1>1, <2>1, <3>6 DEF Crash, ServerGone, belief
    <3>7. CASE Restart BY <1>1, <2>1, <3>7 DEF Restart, belief, hands
    <3>8. ~Quit
      BY <1>1 DEF Quit
    <3> QED
      BY <2>6, <3>1, <3>2, <3>3, <3>4, <3>5, <3>6, <3>7, <3>8 DEF Environment
  <2> QED
    BY <2>2, <2>3, <2>4, <2>5, <2>6 DEF ConnectionStep, Elsewhere
<1>6. CASE mail' # mail /\ ~Receive
  <2>1. CASE Stop \/ Die
    <3>1. mail' = << >> /\ pc' = "ended" /\ peer' = "none" /\ attempt' = FALSE
      BY <2>1 DEF Stop, Die, Gone
    <3>2. connection_lost' = connection_lost
      BY <2>1 DEF Stop, Die, belief
    <3>3. ~Told("lost")'
      BY <3>1 DEF Told
    <3> QED
      BY <1>1, <3>1, <3>2, <3>3
  <2>2. ~(UNCHANGED connectionVars) /\ ~(MainThread /\ ~Stop /\ ~Die)
    BY <1>6 DEF connectionVars, MainThread, StartClient, Check, NoMore, Look, Push, NeverStarted
  <2>3. ~ClientThread
    BY <1>1, <1>6 DEF ClientThread, SendRequest, GiveUp, ClientOnReply,
                      ClientOnRefusal, ClientOnAccepted, ClientDead
  <2>4. ~ServerThread
    BY <1>6 DEF ServerThread, ServerOnOpen, ServerOnAsk, ServerOnNewIncoming, ServerDead
  <2>5. ~Environment
    BY <1>1, <1>6 DEF Environment, OthersKnock, OthersJoin, OthersLeave, Break, Repair,
                      Crash, Quit, Restart
  <2> QED
    BY <2>1, <2>2, <2>3, <2>4, <2>5 DEF ConnectionStep, Elsewhere
<1> QED
  BY <1>4, <1>5, <1>6

---------------------------------------------------------------------------
(* The programs.                                                           *)

LEMMA ProgramStep == ASSUME [Next]_vars PROVE ConnectionStep
<1> USE DEF ConnectionStep
<1>1. CASE UNCHANGED vars
  BY <1>1 DEF vars
<1>2. CASE SampleStart \/ SampleCheck \/ SampleQuit \/ CheckStep
  BY <1>2 DEF SampleStart, SampleCheck, SampleQuit, CheckStep, MainThread
<1>3. CASE RecorderStep
  BY <1>3 DEF RecorderStep, StartRecording, BeginLoop, Turn, NoKey, StopKey, StreamEnded,
              CloseStream, StartPlayback, PlaybackTurn, Finish, Error, NoDevice, MainThread
<1>4. CASE Tick
  BY <1>4 DEF Tick
<1>5. CASE Network
  BY <1>5 DEF Network, Beside
<1> QED
  BY <1>1, <1>2, <1>3, <1>4, <1>5 DEF Next

\* sampleClient and portaudio_record, with all that runs beside them, use their
\* connection as ConnectionSpec says, for any number of slots and of faults.
THEOREM ProgramsUseLibrary == Spec => ConnectionSpec
<1>1. Init => ConnectionInit
  BY DEF Init
<1>2. [Next]_vars => [MainThread \/ Elsewhere]_connectionVars
  BY ProgramStep DEF ConnectionStep
<1> QED
  BY <1>1, <1>2, PTL DEF Spec, ConnectionSpec

LEMMA ConnectionInvariant == ConnectionSpec => []ConnectionInv
<1>1. ConnectionInv /\ [MainThread \/ Elsewhere]_connectionVars => ConnectionInv'
  BY InvStep DEF ConnectionStep
<1> QED
  BY InvInit, <1>1, PTL DEF ConnectionSpec

\* What isconnected and connection_lost of client.cpp say is so, or the news that
\* it is not waits for check, while no attempt was queued beside a connection.
THEOREM BeliefIsSound == Spec => []BeliefSound
  BY ProgramsUseLibrary, ConnectionInvariant, InvBelief, PTL

\* Once a client has no connection, no attempt and none to come, it has none for
\* good: check never calls Connect again, whatever the server does.
THEOREM NoSecondTry == Spec => GivesUpForGood
<1>1. ConnectionInv /\ [MainThread \/ Elsewhere]_connectionVars
          => [Over => Over']_connectionVars
  <2>1. ASSUME ConnectionInv, ConnectionStep
        PROVE  Over => Over'
    BY <2>1, OverStep DEF ConnectionInv
  <2> QED
    BY <2>1 DEF ConnectionStep
<1> QED
  BY <1>1, ProgramsUseLibrary, ConnectionInvariant, PTL DEF ConnectionSpec, GivesUpForGood

---------------------------------------------------------------------------
(* The clock and the buffers.                                              *)

\* What a division leaves is less than the divisor.
LEMMA Division ==
    ASSUME NEW a \in Nat, NEW r \in Nat \ {0}
    PROVE  /\ a \div r \in Nat
           /\ (a \div r) * r <= a /\ a < ((a \div r) + 1) * r
  OBVIOUS

\* Products are ordered as their factors are.
LEMMA Factors ==
    ASSUME NEW x \in Int, NEW y \in Int, NEW r \in Nat \ {0}, x * r < y * r
    PROVE  x < y
  OBVIOUS

LEMMA Multiples ==
    ASSUME NEW x \in Int, NEW y \in Int, NEW r \in Nat \ {0}, x <= y
    PROVE  x * r <= y * r
  OBVIOUS

\* The wrap of framesLeft shows only below zero.
LEMMA Remainder ==
    ASSUME NEW a \in Int, NEW w \in Nat \ {0}
    PROVE  a % w \in 0..(w - 1) /\ (0 <= a /\ a < w => a % w = a)
  OBVIOUS

\* The callback takes what is left, and a buffer at most.
LEMMA BufferTaken ==
    ASSUME frame \in Nat, total \in Nat, Callback
    PROVE  /\ frame' \in Nat /\ frame <= frame' /\ frame' <= frame + Buffer
           /\ total < Width /\ frame <= total =>
                 /\ frame' <= total
                 /\ stream' = "recording" =>
                       stream = "recording" /\ frame' = frame + Buffer
           /\ stream' \in {stream, "finished"}
           /\ stream' = "finished" => stream = "finished" \/ StreamActive
           /\ ~StreamActive => frame' = frame /\ stream' = stream
<1>0. Buffer \in Nat \ {0} /\ Width \in Nat \ {0}
  <2>1. Buffer \in Nat \ {0}  BY RatesAssumption
  <2>2. (NumSeconds + Extra + 2) * Rate \in Nat  BY RatesAssumption
  <2> QED  BY <2>1, <2>2, RatesAssumption
<1>1. /\ FramesLeft \in Nat
      /\ frame <= total /\ total < Width => FramesLeft = total - frame
  <2>1. total - frame \in Int  OBVIOUS
  <2>2. FramesLeft \in 0..(Width - 1)
        /\ (0 <= total - frame /\ total - frame < Width => FramesLeft = total - frame)
    BY <1>0, <2>1, Remainder DEF FramesLeft
  <2> QED  BY <1>0, <2>2
<1>2. /\ Frames \in 0..Buffer
      /\ frame <= total /\ total < Width => frame + Frames <= total
      /\ ~Finished => Frames = Buffer
  BY <1>0, <1>1 DEF Frames, Finished
<1>3. CASE StreamActive
  <2>1. frame' = frame + Frames /\ stream' = IF Finished THEN "finished" ELSE stream
    BY <1>3 DEF Callback
  <2>2. stream' = "recording" => ~Finished /\ stream = "recording"  BY <2>1
  <2>3. /\ frame' \in Nat /\ frame <= frame' /\ frame' <= frame + Buffer
        /\ total < Width /\ frame <= total => frame' <= total
    BY <1>0, <1>2, <2>1
  <2> QED  BY <1>2, <1>3, <2>1, <2>2, <2>3
<1>4. CASE ~StreamActive
  <2>1. frame' = frame /\ stream' = stream /\ stream # "recording"
    BY <1>4 DEF Callback, StreamActive
  <2> QED  BY <1>0, <1>4, <2>1
<1> QED  BY <1>3, <1>4

---------------------------------------------------------------------------
(* The recording, stage by stage.                                          *)

Bounds == Alloc \in Nat /\ Extra * Rate \in Nat /\ Alloc + Extra * Rate < Width

\* Before its loop has begun the program has all of the allocated samples ahead.
BeforeRecording ==
    stage \in {"sample", "open"} =>
        /\ stream = "off" /\ frame = 0 /\ total = Alloc /\ late = 0
        /\ stage = "open" => sleep = 0

\* While it records, frames and time go together until the samples are full.
WhileRecording ==
    stage \in {"startup", "loop", "keys"} =>
        /\ stream \in {"recording", "finished"}
        /\ total = Alloc /\ frame <= Alloc

\* In its startup it sleeps longer than a buffer, and no frame is older than the clock.
InStartup ==
    stage = "startup" =>
        frame <= now /\ (stream = "recording" => frame + sleep >= Buffer)

\* From its first second in the loop on, frames and time go together; a check
\* sleeps for a buffer at most.
InLoop ==
    stage \in {"loop", "keys"} =>
        /\ seconds * Rate <= now
        /\ frame + seconds * Rate <= now + late
        /\ stream = "recording" => now + Buffer < frame + (seconds + 1) * Rate
AtKeys ==
    stage = "keys" =>
        /\ sleep \in {0, Buffer} /\ (pc # "out" => sleep = 0)
        /\ now + sleep + (IF pc = "out" THEN 0 ELSE Buffer)
               < Alloc + (seconds + 1) * Rate

\* What is kept has room for what was recorded, and for one more buffer.
InTime == late + Buffer <= (Extra - 1) * Rate
AtClose ==
    stage = "close" =>
        /\ stream \in {"recording", "finished"} /\ sleep \in {0, Buffer}
        /\ total <= Alloc + Extra * Rate /\ frame <= Alloc + Buffer
        /\ sleep = Buffer => frame <= Alloc /\ (InTime => frame + Buffer <= total)
        /\ InTime => frame <= total
AtWrite ==
    stage = "write" =>
        /\ stream = "off" /\ sleep = 0
        /\ total <= Alloc + Extra * Rate /\ frame <= Alloc + Buffer
        /\ InTime => frame <= total

\* The playback ends where the recording was cut off.
AtPlay ==
    stage = "play" =>
        /\ stream \in {"playing", "finished"}
        /\ frame <= total /\ total <= Alloc + Extra * Rate
AtEnd == stage \in {"done", "failed"} => stream = "off"

\* main has not called the library, or is out of it, but at certain stages.
OutOfCheck ==
    /\ stage = "open" => pc = "begin"
    /\ stage \in {"loop", "close", "write", "play"} => pc = "out"

Stages == {"sample", "open", "startup", "loop", "keys", "close", "write", "play",
           "done", "failed"}
StageTypes ==
    /\ stage \in Stages /\ sleep \in Nat /\ late \in Nat
    /\ now \in Nat /\ seconds \in Nat /\ frame \in Nat /\ total \in Nat
    /\ total <= Alloc + Extra * Rate /\ frame <= Alloc + (Extra + 1) * Rate
    /\ stream \in {"off", "recording", "playing", "finished"}

StageInv ==
    /\ StageTypes /\ BeforeRecording /\ WhileRecording /\ InStartup /\ InLoop /\ AtKeys
    /\ AtClose /\ AtWrite /\ AtPlay /\ AtEnd /\ OutOfCheck

\* What the constants come to.
LEMMA BoundsHold == Bounds /\ Alloc + (Extra + 1) * Rate = Alloc + Extra * Rate + Rate
                      /\ Alloc + (Extra + 1) * Rate <= (NumSeconds + Extra + 2) * Rate
<1>1. Rate \in Nat \ {0} /\ NumSeconds \in Nat \ {0} /\ Extra \in Nat /\ Buffer \in Nat
  BY RatesAssumption
<1>2. /\ NumSeconds * Rate \in Nat /\ Extra * Rate \in Nat
      /\ (NumSeconds + Extra + 2) * Rate = NumSeconds * Rate + Extra * Rate + Rate + Rate
      /\ (Extra + 1) * Rate = Extra * Rate + Rate
  BY <1>1
<1>3. Width \in Nat /\ Width > (NumSeconds + Extra + 2) * Rate + Buffer
  BY RatesAssumption
<1> QED  BY <1>1, <1>2, <1>3 DEF Bounds, Alloc

\* Sums.
LEMMA Longer ==
    ASSUME NEW f \in Nat, NEW b \in Nat, NEW s \in Nat
    PROVE  f + b + s >= b
  OBVIOUS

LEMMA Together ==
    ASSUME NEW b \in Nat, NEW t \in Nat, NEW f \in Nat, NEW p \in Nat, NEW l \in Nat,
           p <= t, f + p <= t + l, NEW g \in Nat, g <= f + b
    PROVE  p <= t + b /\ g + p <= t + b + l
  OBVIOUS

\* Nothing of the recording moves.
LEMMA SteadyStage ==
    ASSUME StageInv, UNCHANGED <<audioVars, stage, sleep, late>>,
           pc' = pc \/ stage = "sample"
    PROVE  StageInv'
<1>1. /\ now' = now /\ seconds' = seconds /\ frame' = frame /\ total' = total
      /\ stream' = stream /\ stage' = stage /\ sleep' = sleep /\ late' = late
  BY DEF audioVars
<1>2. StageTypes'  BY <1>1 DEF StageInv, StageTypes, Alloc
<1>3. BeforeRecording' /\ WhileRecording' /\ AtEnd'
  BY <1>1 DEF StageInv, BeforeRecording, WhileRecording, AtEnd, Alloc
<1>4. InStartup' /\ InLoop'  BY <1>1 DEF StageInv, InStartup, InLoop
<1>5. AtKeys'  BY <1>1 DEF StageInv, AtKeys, Alloc
<1>6. AtClose' /\ AtWrite' /\ AtPlay'
  BY <1>1 DEF StageInv, AtClose, AtWrite, AtPlay, InTime, Alloc
<1>7. OutOfCheck'  BY <1>1 DEF StageInv, OutOfCheck
<1> QED  BY <1>2, <1>3, <1>4, <1>5, <1>6, <1>7 DEF StageInv

\* The clock runs while main sleeps, and the device with it.
LEMMA TickStage ==
    ASSUME StageInv, Tick
    PROVE  StageInv'
<1>0. /\ Bounds /\ Alloc + (Extra + 1) * Rate = Alloc + Extra * Rate + Rate
      /\ Buffer \in Nat \ {0} /\ Buffer <= Rate /\ Rate \in Nat /\ Width \in Nat
  BY BoundsHold, RatesAssumption
<1>1. /\ sleep # 0 /\ now' = now + Buffer
      /\ sleep' = (IF sleep > Buffer THEN sleep - Buffer ELSE 0)
      /\ Callback /\ seconds' = seconds /\ total' = total /\ stage' = stage
      /\ late' = late /\ pc' = pc
  BY DEF Tick, Awake, connectionVars
<1>2. StageTypes  BY DEF StageInv
<1>20. /\ now \in Nat /\ seconds \in Nat /\ frame \in Nat /\ total \in Nat
       /\ sleep \in Nat /\ late \in Nat
  BY <1>2 DEF StageTypes
<1>21. total < Width
  <2>1. total <= Alloc + Extra * Rate  BY <1>2 DEF StageTypes
  <2> HIDE DEF Alloc
  <2> QED  BY <1>0, <1>20, <2>1 DEF Bounds
<1>3. /\ frame' \in Nat /\ frame <= frame' /\ frame' <= frame + Buffer
      /\ frame <= total =>
            /\ frame' <= total
            /\ stream' = "recording" => stream = "recording" /\ frame' = frame + Buffer
      /\ stream' \in {stream, "finished"}
      /\ stream' = "finished" => stream = "finished" \/ StreamActive
      /\ ~StreamActive => frame' = frame /\ stream' = stream
  BY <1>1, <1>20, <1>21, BufferTaken
<1>4. BeforeRecording' /\ AtEnd'
  BY <1>1, <1>3 DEF StageInv, BeforeRecording, AtEnd, StreamActive, Alloc
<1>5. WhileRecording'
  BY <1>1, <1>3 DEF StageInv, WhileRecording, Alloc
<1>6. InStartup'
  <2> SUFFICES ASSUME stage = "startup"
               PROVE  /\ frame' <= now'
                      /\ stream' = "recording" => frame' + sleep' >= Buffer
    BY <1>1 DEF InStartup
  <2>1. frame <= total /\ frame <= now /\ (stream = "recording" => frame + sleep >= Buffer)
    BY <1>2 DEF StageInv, WhileRecording, InStartup, Alloc
  <2>2. Buffer \in Nat  BY <1>0
  <2>3. frame' <= now'
    <3>1. frame' \in Nat /\ frame' <= frame + Buffer /\ now' = now + Buffer
      BY <1>1, <1>3
    <3> QED  BY <1>20, <2>1, <2>2, <3>1
  <2>4. ASSUME stream' = "recording"  PROVE frame' + sleep' >= Buffer
    <3>1. frame' = frame + Buffer  BY <1>3, <2>1, <2>4
    <3>2. sleep' \in Nat  BY <1>1, <1>20, <2>2
    <3> QED  BY <1>20, <2>2, <3>1, <3>2, Longer
  <2> QED  BY <2>3, <2>4
<1>7. InLoop'
  <2> DEFINE p == seconds * Rate
             q == (seconds + 1) * Rate
  <2>0. p \in Nat /\ q \in Nat  BY <1>0, <1>2 DEF StageTypes
  <2>1. ASSUME stage \in {"loop", "keys"}
        PROVE  /\ p <= now /\ frame + p <= now + late /\ frame <= total
               /\ stream = "recording" => now + Buffer < frame + q
    BY <2>1, <1>2 DEF StageInv, WhileRecording, InLoop
  <2>2. p' = p /\ q' = q  BY <1>1
  <2> HIDE DEF p, q
  <2>4. Buffer \in Nat  BY <1>0
  <2>3. ASSUME stage \in {"loop", "keys"}
        PROVE  /\ p <= now' /\ frame' + p <= now' + late
               /\ stream' = "recording" => now' + Buffer < frame' + q
    <3>1. now' = now + Buffer /\ frame' \in Nat /\ frame' <= frame + Buffer
      BY <1>1, <1>3
    <3>2. p <= now' /\ frame' + p <= now' + late
      BY <1>20, <2>0, <2>1, <2>3, <2>4, <3>1, Together
    <3>3. ASSUME stream' = "recording"  PROVE now' + Buffer < frame' + q
      <4>1. frame' = frame + Buffer /\ stream = "recording"
        BY <1>3, <2>1, <2>3, <3>3
      <4>2. now + Buffer < frame + q  BY <2>1, <2>3, <4>1
      <4> QED  BY <1>20, <2>0, <2>4, <3>1, <4>1, <4>2
    <3> QED  BY <3>2, <3>3
  <2> QED  BY <1>1, <2>2, <2>3 DEF InLoop, p, q
<1>8. AtKeys'
  <2> DEFINE q == Alloc + (seconds + 1) * Rate
  <2>0. q \in Nat /\ q' = q  BY <1>0, <1>1, <1>2 DEF StageTypes, Bounds, Alloc
  <2>1. ASSUME stage = "keys"
        PROVE  /\ sleep = Buffer /\ pc = "out"
               /\ now + sleep < q
    BY <2>1, <1>1 DEF StageInv, AtKeys
  <2> HIDE DEF q
  <2>2. ASSUME stage = "keys"  PROVE sleep' = 0 /\ now' + sleep' < q
    BY <2>0, <2>1, <2>2, <1>0, <1>1, <1>2 DEF StageTypes
  <2> QED  BY <1>1, <2>0, <2>1, <2>2 DEF AtKeys, q
<1>9. AtClose'
  <2>1. ASSUME stage = "close"
        PROVE  /\ stream \in {"recording", "finished"} /\ sleep = Buffer
               /\ total <= Alloc + Extra * Rate
               /\ frame <= Alloc /\ (InTime => frame + Buffer <= total)
    BY <2>1, <1>1 DEF StageInv, AtClose
  <2>2. ASSUME stage = "close"
        PROVE  /\ stream' \in {"recording", "finished"} /\ sleep' = 0
               /\ frame' <= Alloc + Buffer /\ (InTime => frame' <= total)
    BY <2>1, <2>2, <1>0, <1>1, <1>2, <1>3 DEF StageTypes, Bounds
  <2>3. InTime' = InTime  BY <1>1 DEF InTime
  <2> QED  BY <1>0, <1>1, <2>1, <2>2, <2>3 DEF AtClose, Alloc
<1>10. AtWrite'  BY <1>1 DEF StageInv, AtWrite
<1>11. AtPlay'
  <2>1. ASSUME stage = "play"
        PROVE  /\ stream \in {"playing", "finished"}
               /\ frame <= total /\ total <= Alloc + Extra * Rate
    BY <2>1 DEF StageInv, AtPlay
  <2> QED  BY <1>1, <1>3, <2>1 DEF AtPlay, Alloc
<1>12. OutOfCheck'  BY <1>1 DEF StageInv, OutOfCheck
<1>13. StageTypes'
  <2>1. now' \in Nat /\ sleep' \in Nat  BY <1>0, <1>1, <1>2 DEF StageTypes
  <2>2. frame' <= Alloc + (Extra + 1) * Rate
    <3>1. CASE stage \in {"sample", "open", "write", "done", "failed"}
      <4>1. frame' = frame
        BY <1>3, <3>1 DEF StageInv, BeforeRecording, AtWrite, AtEnd, StreamActive
      <4> QED  BY <1>2, <4>1 DEF StageTypes
    <3>2. CASE stage \in {"startup", "loop", "keys"}
      BY <1>0, <1>1, <1>2, <1>3, <1>5, <3>2 DEF WhileRecording, StageTypes, Bounds, Alloc
    <3>3. CASE stage = "close"
      <4>1. frame' <= Alloc + Buffer  BY <1>1, <1>9, <3>3 DEF AtClose, Alloc
      <4> QED  BY <1>0, <1>3, <4>1 DEF Bounds
    <3>4. CASE stage = "play"
      <4>1. frame' <= total /\ total <= Alloc + Extra * Rate
        BY <1>1, <1>11, <3>4 DEF AtPlay, Alloc
      <4> QED  BY <1>0, <1>2, <1>3, <4>1 DEF Bounds, StageTypes
    <3> QED  BY <1>2, <3>1, <3>2, <3>3, <3>4 DEF StageTypes, Stages
  <2>3. stream' \in {"off", "recording", "playing", "finished"}
    BY <1>2, <1>3 DEF StageTypes
  <2> QED  BY <1>1, <1>2, <1>3, <2>1, <2>2, <2>3 DEF StageTypes, Alloc
<1> QED
  BY <1>4, <1>5, <1>6, <1>7, <1>8, <1>9, <1>10, <1>11, <1>12, <1>13 DEF StageInv

\* check may sleep for a buffer when it is left.
LEMMA CheckStage ==
    ASSUME StageInv, CheckStep
    PROVE  StageInv'
<1>0. Buffer \in Nat /\ Buffer \in Nat \ {0}  BY RatesAssumption
<1>1. /\ now' = now /\ seconds' = seconds /\ frame' = frame /\ total' = total
      /\ stream' = stream /\ stage' = stage /\ late' = late
      /\ sleep = 0 /\ pc \in {"receive", "look", "push"} /\ sleep' \in {0, Buffer}
      /\ sleep' = 0 \/ (pc' = "out" /\ stage # "sample")
  <2>1. Receive \/ NoMore \/ Look \/ Push  BY DEF CheckStep
  <2>2. pc \in {"receive", "look", "push"}
    BY <2>1 DEF Receive, NoMore, Look, Push
  <2> QED  BY <2>2 DEF CheckStep, audioVars, Awake
<1>2. StageTypes'  BY <1>0, <1>1 DEF StageInv, StageTypes, Alloc
<1>3. WhileRecording' /\ AtEnd'
  BY <1>1 DEF StageInv, WhileRecording, AtEnd, Alloc
<1>4. BeforeRecording'
  <2>1. stage = "open" => sleep' = 0
    BY <1>1 DEF StageInv, OutOfCheck
  <2> QED  BY <1>1, <2>1 DEF StageInv, BeforeRecording, Alloc
<1>5. InStartup'
  <2> SUFFICES ASSUME stage = "startup", stream = "recording"
               PROVE  frame + sleep' >= Buffer
    BY <1>1 DEF StageInv, InStartup
  <2>1. frame + sleep >= Buffer /\ sleep = 0 /\ frame \in Nat
    BY <1>1 DEF StageInv, StageTypes, InStartup
  <2> DEFINE s == sleep'
  <2>2. s \in Nat  BY <1>0, <1>1
  <2>3. frame >= Buffer  BY <2>1
  <2> HIDE DEF s
  <2>4. frame + s >= Buffer  BY <1>0, <2>1, <2>2, <2>3
  <2> QED  BY <2>4 DEF s
<1>6. InLoop'  BY <1>1 DEF StageInv, InLoop
<1>7. AtKeys'
  <2> DEFINE q == Alloc + (seconds + 1) * Rate
  <2>1. ASSUME stage = "keys"
        PROVE  pc # "out" /\ now + sleep + Buffer < q
    BY <1>1, <2>1 DEF StageInv, AtKeys
  <2>2. q' = q /\ now \in Nat  BY <1>1 DEF StageInv, StageTypes, Alloc
  <2>3. q \in Int
    BY BoundsHold, RatesAssumption DEF StageInv, StageTypes, Bounds
  <2> HIDE DEF q
  <2>4. ASSUME stage = "keys"
        PROVE  /\ sleep' \in {0, Buffer} /\ (pc' # "out" => sleep' = 0)
               /\ now + sleep' + (IF pc' = "out" THEN 0 ELSE Buffer) < q
    <3> DEFINE s == sleep'
    <3>1. /\ s = 0 \/ (s = Buffer /\ pc' = "out")
          /\ now + Buffer < q
      BY <1>0, <1>1, <2>1, <2>2, <2>4
    <3> HIDE DEF s
    <3>2. /\ s \in {0, Buffer} /\ (pc' # "out" => s = 0)
          /\ now + s + (IF pc' = "out" THEN 0 ELSE Buffer) < q
      BY <1>0, <2>2, <2>3, <3>1
    <3> QED  BY <3>2 DEF s
  <2> QED  BY <1>1, <2>2, <2>4 DEF AtKeys, q
<1>8. AtClose' /\ AtWrite' /\ AtPlay' /\ OutOfCheck'
  BY <1>1 DEF StageInv, AtClose, AtWrite, AtPlay, OutOfCheck
<1> QED  BY <1>2, <1>3, <1>4, <1>5, <1>6, <1>7, <1>8 DEF StageInv

\* The stream is started, and the client; startclient sleeps longer than a buffer.
LEMMA StartStage ==
    ASSUME StageInv, StartRecording
    PROVE  StageInv'
<1>0. Buffer \in Nat  BY RatesAssumption
<1>1. /\ stage = "open" /\ stage' = "startup" /\ stream' = "recording"
      /\ now' = now /\ seconds' = seconds /\ frame' = frame /\ total' = total
      /\ late' = late /\ sleep' \in Nat /\ sleep' >= Buffer
  BY StartupsAssumption DEF StartRecording
<1>2. frame = 0 /\ total = Alloc /\ now \in Nat
  BY <1>1 DEF StageInv, BeforeRecording, StageTypes
<1>3. StageTypes'  BY <1>1 DEF StageInv, StageTypes, Stages, Alloc
<1>4. InStartup'
  <2>1. frame' <= now'  BY <1>1, <1>2
  <2>2. frame' + sleep' >= Buffer
    <3> DEFINE s == sleep'
    <3>1. s \in Nat /\ s >= Buffer  BY <1>1
    <3> HIDE DEF s
    <3>2. 0 + s >= Buffer  BY <3>1
    <3> QED  BY <1>1, <1>2, <3>2 DEF s
  <2> QED  BY <2>1, <2>2 DEF InStartup
<1>5. WhileRecording'
  <2>1. Alloc' = Alloc /\ 0 <= Alloc  BY BoundsHold DEF Bounds, Alloc
  <2> QED  BY <1>1, <1>2, <2>1 DEF WhileRecording
<1>6. BeforeRecording' /\ InLoop' /\ AtKeys'
  BY <1>1 DEF BeforeRecording, InLoop, AtKeys
<1>7. AtClose' /\ AtWrite' /\ AtPlay' /\ AtEnd' /\ OutOfCheck'
  BY <1>1 DEF AtClose, AtWrite, AtPlay, AtEnd, OutOfCheck
<1> QED  BY <1>3, <1>4, <1>5, <1>6, <1>7 DEF StageInv

\* The loop begins in some second of the clock.
LEMMA BeginStage ==
    ASSUME StageInv, BeginLoop
    PROVE  StageInv'
<1>0. Buffer \in Nat /\ Rate \in Nat \ {0}  BY RatesAssumption
<1>1. /\ stage = "startup" /\ stage' = "loop" /\ pc = "out" /\ sleep = 0
      /\ seconds' = Time /\ late' = frame /\ pc' = pc
      /\ now' = now /\ frame' = frame /\ total' = total /\ stream' = stream /\ sleep' = sleep
  BY DEF BeginLoop, Awake, connectionVars
<1>2. now \in Nat /\ frame \in Nat  BY DEF StageInv, StageTypes
<1>3. /\ Time \in Nat /\ Time * Rate <= now /\ now < (Time + 1) * Rate
  BY <1>0, <1>2, Division DEF Time
<1>4. frame <= now /\ (stream = "recording" => frame >= Buffer)
  BY <1>0, <1>1, <1>2 DEF StageInv, InStartup
<1>5. InLoop'
  <2> DEFINE p == Time * Rate
             q == (Time + 1) * Rate
  <2>1. p \in Nat /\ q \in Nat  BY <1>0, <1>3
  <2>2. p <= now /\ now < q  BY <1>3
  <2> HIDE DEF p, q
  <2>3. frame + p <= now + frame  BY <1>2, <2>1, <2>2
  <2>4. stream = "recording" => now + Buffer < frame + q
    BY <1>0, <1>2, <1>4, <2>1, <2>2
  <2>5. Time' = Time  BY <1>1 DEF Time
  <2> QED  BY <1>1, <2>2, <2>3, <2>4 DEF InLoop, p, q
<1>6. StageTypes'  BY <1>1, <1>2, <1>3 DEF StageInv, StageTypes, Stages, Alloc
<1>7. WhileRecording'  BY <1>1 DEF StageInv, WhileRecording, Alloc
<1>8. BeforeRecording' /\ InStartup' /\ AtKeys' /\ OutOfCheck'
  BY <1>1 DEF BeforeRecording, InStartup, AtKeys, OutOfCheck
<1>9. AtClose' /\ AtWrite' /\ AtPlay' /\ AtEnd'
  BY <1>1 DEF AtClose, AtWrite, AtPlay, AtEnd
<1> QED  BY <1>5, <1>6, <1>7, <1>8, <1>9 DEF StageInv

\* A turn of the loop up to the look at the keys, and the next.
LEMMA TurnStage ==
    ASSUME StageInv, Turn \/ NoKey
    PROVE  StageInv'
<1>0. Buffer \in Nat /\ Rate \in Nat /\ Bounds  BY RatesAssumption, BoundsHold
<1>1. /\ now' = now /\ seconds' = seconds /\ frame' = frame /\ total' = total
      /\ stream' = stream /\ late' = late /\ sleep = 0
      /\ \/ /\ stage = "loop" /\ stage' = "keys" /\ pc' = "receive" /\ sleep' = 0
            /\ stream \in {"recording", "playing"}
         \/ stage = "keys" /\ stage' = "loop" /\ pc' = "out" /\ sleep' = Buffer
  BY DEF Turn, NoKey, Awake, Check, StreamActive, audioVars, connectionVars
<1>2. StageTypes /\ StageTypes'
  BY <1>0, <1>1 DEF StageInv, StageTypes, Stages, Alloc
<1>3. WhileRecording'  BY <1>1 DEF StageInv, WhileRecording, Alloc
<1>4. InLoop'  BY <1>1 DEF StageInv, InLoop
<1>5. AtKeys'
  <2> SUFFICES ASSUME stage = "loop"
               PROVE  now + 0 + Buffer < Alloc + (seconds + 1) * Rate
    BY <1>1 DEF AtKeys, Alloc
  <2> DEFINE q == (seconds + 1) * Rate
  <2>1. stream = "recording" /\ frame <= Alloc /\ now + Buffer < frame + q
    BY <1>1 DEF StageInv, WhileRecording, InLoop
  <2>2. now \in Nat /\ frame \in Nat /\ Alloc \in Nat /\ q \in Nat
    BY <1>0, <1>2 DEF StageTypes, Bounds
  <2> HIDE DEF q
  <2>3. now + 0 + Buffer < Alloc + q
    <3> HIDE DEF Alloc
    <3> QED  BY <1>0, <2>1, <2>2
  <2> QED  BY <2>3 DEF q
<1>6. BeforeRecording' /\ InStartup' /\ OutOfCheck'
  BY <1>1 DEF BeforeRecording, InStartup, OutOfCheck
<1>7. AtClose' /\ AtWrite' /\ AtPlay' /\ AtEnd'
  BY <1>1 DEF AtClose, AtWrite, AtPlay, AtEnd
<1> QED  BY <1>2, <1>3, <1>4, <1>5, <1>6, <1>7 DEF StageInv

\* The seconds that passed in the loop, and the extra ones, are room enough.
LEMMA RoomKept ==
    ASSUME StageInv, stage = "keys", pc = "out", sleep = 0
    PROVE  /\ Kept \in Nat /\ Kept <= Alloc + Extra * Rate
           /\ InTime => frame + Buffer <= Kept
<1>0. /\ Buffer \in Nat /\ Rate \in Nat \ {0} /\ Extra \in Nat /\ NumSeconds \in Nat
      /\ Bounds
  BY RatesAssumption, BoundsHold
<1>1. /\ now \in Nat /\ frame \in Nat /\ late \in Nat /\ seconds \in Nat
  BY DEF StageInv, StageTypes
<1>2. /\ Time \in Nat /\ Time * Rate <= now /\ now < (Time + 1) * Rate
  BY <1>0, <1>1, Division DEF Time
<1>3. /\ seconds * Rate <= now /\ frame + seconds * Rate <= now + late
      /\ now < Alloc + (seconds + 1) * Rate
  <2>1. now + 0 + 0 < Alloc + (seconds + 1) * Rate
    BY DEF StageInv, AtKeys
  <2>2. now + 0 + 0 = now  BY <1>1
  <2>3. seconds * Rate <= now /\ frame + seconds * Rate <= now + late
    BY DEF StageInv, InLoop
  <2> QED  BY <2>1, <2>2, <2>3
<1>4. seconds <= Time
  <2>1. seconds * Rate < (Time + 1) * Rate
    <3> DEFINE a == seconds * Rate
               b == (Time + 1) * Rate
    <3>1. a \in Nat /\ b \in Nat /\ a <= now /\ now < b  BY <1>0, <1>1, <1>2, <1>3
    <3> HIDE DEF a, b
    <3>2. a < b  BY <1>1, <3>1
    <3> QED  BY <3>2 DEF a, b
  <2>2. seconds < Time + 1  BY <1>0, <1>1, <1>2, <2>1, Factors
  <2> QED  BY <1>1, <1>2, <2>2
<1>5. Time <= seconds + NumSeconds
  <2>1. Alloc + (seconds + 1) * Rate = (seconds + NumSeconds + 1) * Rate
    BY <1>0, <1>1 DEF Alloc
  <2>2. Time * Rate < (seconds + NumSeconds + 1) * Rate
    <3> DEFINE a == Time * Rate
               b == (seconds + NumSeconds + 1) * Rate
    <3>1. a \in Nat /\ b \in Nat /\ a <= now /\ now < b
      BY <1>0, <1>1, <1>2, <1>3, <2>1
    <3> HIDE DEF a, b
    <3>2. a < b  BY <1>1, <3>1
    <3> QED  BY <3>2 DEF a, b
  <2>3. Time < seconds + NumSeconds + 1
    BY <1>0, <1>1, <1>2, <2>2, Factors
  <2> QED  BY <1>0, <1>1, <1>2, <2>3
<1>6. Elapsed \in Nat /\ Elapsed <= NumSeconds
  BY <1>0, <1>1, <1>2, <1>4, <1>5 DEF Elapsed
<1>7. Kept = Elapsed * Rate + Extra * Rate
  BY <1>0, <1>6 DEF Kept
<1>8. Kept \in Nat /\ Kept <= Alloc + Extra * Rate
  <2>1. Elapsed * Rate <= NumSeconds * Rate /\ Elapsed * Rate \in Nat
    BY <1>0, <1>6, Multiples
  <2> DEFINE a == Elapsed * Rate
             e == Extra * Rate
             n == NumSeconds * Rate
  <2>2. a \in Nat /\ e \in Nat /\ n \in Nat /\ a <= n  BY <1>0, <2>1 DEF Bounds, Alloc
  <2>3. Kept = a + e /\ Alloc = n  BY <1>7 DEF Alloc
  <2> HIDE DEF a, e, n
  <2>4. Kept \in Nat /\ Kept <= Alloc + e  BY <2>2, <2>3
  <2> QED  BY <2>4 DEF e
<1>9. ASSUME InTime  PROVE frame + Buffer <= Kept
  <2> DEFINE p == seconds * Rate
             t == Time * Rate
             e == Extra * Rate
  <2>1. /\ p \in Nat /\ t \in Nat /\ e \in Nat  BY <1>0, <1>1, <1>2 DEF Bounds
  <2>2. now < t + Rate
    <3>1. (Time + 1) * Rate = t + Rate  BY <1>0, <1>2
    <3> QED  BY <1>2, <3>1
  <2>3. late + Buffer <= e - Rate
    <3>1. (Extra - 1) * Rate = e - Rate  BY <1>0
    <3> QED  BY <1>9, <3>1 DEF InTime
  <2>4. Kept = (t - p) + e
    <3>1. Elapsed * Rate = t - p  BY <1>0, <1>1, <1>2 DEF Elapsed
    <3> QED  BY <1>7, <3>1
  <2>5. frame + p <= now + late  BY <1>3
  <2> HIDE DEF p, t, e
  <2> QED  BY <1>0, <1>1, <2>1, <2>2, <2>3, <2>4, <2>5
<1> QED  BY <1>8, <1>9

\* The recording is stopped, by a key or at the end of the samples.
LEMMA CloseStage ==
    ASSUME StageInv, StopKey \/ StreamEnded
    PROVE  StageInv'
<1>0. /\ Buffer \in Nat /\ Rate \in Nat /\ Extra * Rate \in Nat /\ Alloc \in Nat
      /\ Alloc + (Extra + 1) * Rate = Alloc + Extra * Rate + Rate
  BY RatesAssumption, BoundsHold DEF Bounds
<1>1. /\ stage \in {"loop", "keys"} /\ stage' = "close" /\ sleep = 0
      /\ now' = now /\ seconds' = seconds /\ frame' = frame /\ late' = late
      /\ stream' = stream /\ pc = "out" /\ pc' = "out"
  BY DEF StopKey, StreamEnded, Awake, audioVars, connectionVars, StageInv, OutOfCheck
<1>2. /\ stream \in {"recording", "finished"} /\ total = Alloc /\ frame <= Alloc
      /\ frame \in Nat
  BY <1>1 DEF StageInv, WhileRecording, StageTypes
<1>3. /\ total' \in Nat /\ total' <= Alloc + Extra * Rate /\ sleep' \in {0, Buffer}
      /\ sleep' = Buffer => (InTime => frame + Buffer <= total')
      /\ InTime => frame <= total'
  <2>1. CASE StopKey
    <3>1. stage = "keys" /\ total' = Kept /\ sleep' \in {0, Buffer}
      BY <2>1 DEF StopKey
    <3>2. /\ Kept \in Nat /\ Kept <= Alloc + Extra * Rate
          /\ InTime => frame + Buffer <= Kept
      BY <1>1, <3>1, RoomKept
    <3>3. InTime => frame <= Kept  BY <1>0, <1>2, <3>2
    <3> QED  BY <3>1, <3>2, <3>3
  <2>2. CASE StreamEnded
    <3>1. total' = total /\ sleep' = 0 /\ stage = "loop" /\ stream = "finished"
      BY <1>1, <1>2, <2>2 DEF StreamEnded, audioVars, StreamActive
    <3>2. Buffer # 0  BY RatesAssumption
    <3>3. Alloc <= Alloc + Extra * Rate
      <4> HIDE DEF Alloc
      <4> QED  BY <1>0
    <3> QED  BY <1>0, <1>2, <3>1, <3>2, <3>3
  <2> QED  BY <2>1, <2>2
<1>4. AtClose'
  <2>1. frame <= Alloc + Buffer
    <3> HIDE DEF Alloc
    <3> QED  BY <1>0, <1>2
  <2>2. InTime' = InTime  BY <1>1 DEF InTime
  <2> QED  BY <1>1, <1>2, <1>3, <2>1, <2>2 DEF AtClose, Alloc
<1>5. StageTypes'
  <2>1. sleep' \in Nat  BY <1>0, <1>3
  <2> QED  BY <1>1, <1>3, <2>1 DEF StageInv, StageTypes, Stages, Alloc
<1>6. BeforeRecording' /\ WhileRecording' /\ InStartup' /\ InLoop' /\ AtKeys'
  BY <1>1 DEF BeforeRecording, WhileRecording, InStartup, InLoop, AtKeys
<1>7. AtWrite' /\ AtPlay' /\ AtEnd' /\ OutOfCheck'
  BY <1>1 DEF AtWrite, AtPlay, AtEnd, OutOfCheck
<1> QED  BY <1>4, <1>5, <1>6, <1>7 DEF StageInv

\* What was recorded is written, and played.
LEMMA WriteStage ==
    ASSUME StageInv, CloseStream \/ StartPlayback \/ PlaybackTurn
    PROVE  StageInv'
<1>0. Buffer \in Nat /\ StageTypes  BY RatesAssumption DEF StageInv
<1>1. CASE CloseStream
  <2>1. /\ stage = "close" /\ stage' = "write" /\ stream' = "off" /\ now' = 0
        /\ seconds' = 0 /\ frame' = frame /\ total' = total /\ late' = late
        /\ sleep = 0 /\ sleep' = 0 /\ pc' = pc
    BY <1>1 DEF CloseStream, Awake, connectionVars
  <2>2. StageTypes'  BY <1>0, <2>1 DEF StageTypes, Stages, Alloc
  <2>3. AtWrite' /\ OutOfCheck'
    BY <2>1 DEF StageInv, AtClose, AtWrite, InTime, OutOfCheck, Alloc
  <2>4. BeforeRecording' /\ WhileRecording' /\ InStartup' /\ InLoop' /\ AtKeys'
    BY <2>1 DEF BeforeRecording, WhileRecording, InStartup, InLoop, AtKeys
  <2>5. AtClose' /\ AtPlay' /\ AtEnd'  BY <2>1 DEF AtClose, AtPlay, AtEnd
  <2> QED  BY <2>2, <2>3, <2>4, <2>5 DEF StageInv
<1>2. CASE StartPlayback
  <2>1. /\ stage = "write" /\ stage' = "play" /\ stream' = "playing" /\ now' = now
        /\ seconds' = seconds /\ frame' = 0 /\ total' = total /\ late' = 0
        /\ sleep' = sleep /\ pc' = pc
    BY <1>2 DEF StartPlayback, connectionVars
  <2>2. StageTypes'
    <3>1. 0 <= Alloc + (Extra + 1) * Rate
      <4>1. frame \in Nat /\ frame <= Alloc + (Extra + 1) * Rate  BY <1>0 DEF StageTypes
      <4>2. Alloc + (Extra + 1) * Rate \in Int  BY RatesAssumption DEF Alloc
      <4> QED  BY <4>1, <4>2
    <3> QED  BY <1>0, <2>1, <3>1 DEF StageTypes, Stages, Alloc
  <2>3. AtPlay' /\ OutOfCheck'
    BY <1>0, <2>1 DEF StageInv, AtWrite, AtPlay, OutOfCheck, Alloc, StageTypes
  <2>4. BeforeRecording' /\ WhileRecording' /\ InStartup' /\ InLoop' /\ AtKeys'
    BY <2>1 DEF BeforeRecording, WhileRecording, InStartup, InLoop, AtKeys
  <2>5. AtClose' /\ AtWrite' /\ AtEnd'  BY <2>1 DEF AtClose, AtWrite, AtEnd
  <2> QED  BY <2>2, <2>3, <2>4, <2>5 DEF StageInv
<1>3. CASE PlaybackTurn
  <2>1. /\ stage = "play" /\ stage' = stage /\ stream' = stream /\ now' = now
        /\ seconds' = seconds /\ frame' = frame /\ total' = total /\ late' = late
        /\ sleep' = Buffer /\ pc' = pc
    BY <1>3 DEF PlaybackTurn, audioVars, connectionVars
  <2>2. StageTypes'  BY <1>0, <2>1 DEF StageTypes, Alloc
  <2>3. AtPlay' /\ OutOfCheck'
    BY <2>1 DEF StageInv, AtPlay, OutOfCheck, Alloc
  <2>4. BeforeRecording' /\ WhileRecording' /\ InStartup' /\ InLoop' /\ AtKeys'
    BY <2>1 DEF BeforeRecording, WhileRecording, InStartup, InLoop, AtKeys
  <2>5. AtClose' /\ AtWrite' /\ AtEnd'  BY <2>1 DEF AtClose, AtWrite, AtEnd
  <2> QED  BY <2>2, <2>3, <2>4, <2>5 DEF StageInv
<1> QED  BY <1>1, <1>2, <1>3

\* The program is done, or has failed.
LEMMA EndStage ==
    ASSUME StageInv, Finish \/ Error \/ NoDevice
    PROVE  StageInv'
<1>1. /\ stage' \in {"done", "failed"} /\ stream' = "off"
      /\ now' = now /\ seconds' = seconds /\ frame' = frame /\ total' = total
      /\ late' = late /\ sleep' = sleep
  BY DEF Finish, Error, NoDevice, audioVars, StageInv, BeforeRecording
<1>2. StageTypes'  BY <1>1 DEF StageInv, StageTypes, Stages, Alloc
<1>3. BeforeRecording' /\ WhileRecording' /\ InStartup' /\ InLoop' /\ AtKeys'
  BY <1>1 DEF BeforeRecording, WhileRecording, InStartup, InLoop, AtKeys
<1>4. AtClose' /\ AtWrite' /\ AtPlay' /\ AtEnd' /\ OutOfCheck'
  BY <1>1 DEF AtClose, AtWrite, AtPlay, AtEnd, OutOfCheck
<1> QED  BY <1>2, <1>3, <1>4 DEF StageInv

\* The recording at the start of either program.
LEMMA InitStage == Init => StageInv
<1> SUFFICES ASSUME Init  PROVE StageInv
  OBVIOUS
<1>1. /\ stage \in {"sample", "open"} /\ sleep = 0 /\ late = 0 /\ frame = 0
      /\ total = Alloc /\ stream = "off" /\ seconds = 0 /\ now \in Nat /\ pc = "begin"
  <2>1. now \in 0..(Rate - 1) /\ Rate \in Nat  BY RatesAssumption DEF Init, AudioInit
  <2>2. now \in Nat  BY <2>1
  <2> QED  BY <2>2 DEF Init, AudioInit, ConnectionInit
<1>2. /\ Alloc \in Nat /\ Extra * Rate \in Nat
      /\ Alloc + (Extra + 1) * Rate = Alloc + Extra * Rate + Rate /\ Rate \in Nat
  BY BoundsHold, RatesAssumption DEF Bounds
<1>3. StageTypes
  <2>1. Alloc <= Alloc + Extra * Rate /\ 0 <= Alloc + (Extra + 1) * Rate
    <3> HIDE DEF Alloc
    <3> QED  BY <1>2
  <2> QED  BY <1>1, <1>2, <2>1 DEF StageTypes, Stages
<1>4. BeforeRecording /\ WhileRecording /\ InStartup /\ InLoop /\ AtKeys
  BY <1>1 DEF BeforeRecording, WhileRecording, InStartup, InLoop, AtKeys
<1>5. AtClose /\ AtWrite /\ AtPlay /\ AtEnd /\ OutOfCheck
  BY <1>1 DEF AtClose, AtWrite, AtPlay, AtEnd, OutOfCheck
<1> QED  BY <1>3, <1>4, <1>5 DEF StageInv

\* The recording over every step of either program.
LEMMA NextStage == StageInv /\ [Next]_vars => StageInv'
<1> SUFFICES ASSUME StageInv, [Next]_vars  PROVE StageInv'
  OBVIOUS
<1>1. CASE UNCHANGED vars
  BY <1>1, SteadyStage DEF vars, connectionVars
<1>2. CASE SampleStart \/ SampleCheck \/ SampleQuit
  BY <1>2, SteadyStage DEF SampleStart, SampleCheck, SampleQuit
<1>3. CASE CheckStep  BY <1>3, CheckStage
<1>4. CASE RecorderStep
  BY <1>4, StartStage, BeginStage, TurnStage, CloseStage, WriteStage, EndStage
  DEF RecorderStep
<1>5. CASE Tick  BY <1>5, TickStage
<1>6. CASE Network
  <2>1. Elsewhere /\ UNCHANGED <<audioVars, stage, sleep, late>>
    BY <1>6 DEF Network, Beside
  <2>2. CASE ClientThread
    BY <2>1, <2>2, SteadyStage
    DEF ClientThread, SendRequest, GiveUp, ClientOnReply, ClientOnRefusal,
        ClientOnAccepted, ClientDead
  <2>3. CASE ServerThread
    BY <2>1, <2>3, SteadyStage
    DEF ServerThread, ServerOnOpen, ServerOnAsk, ServerOnNewIncoming, ServerDead
  <2>4. CASE Environment
    BY <2>1, <2>4, SteadyStage
    DEF Environment, OthersKnock, OthersJoin, OthersLeave, Break, Repair, ServerGone,
        Crash, Quit, Restart
  <2> QED  BY <2>1, <2>2, <2>3, <2>4 DEF Elsewhere
<1> QED  BY <1>1, <1>2, <1>3, <1>4, <1>5, <1>6 DEF Next

LEMMA AlwaysStage == Spec => []StageInv
  BY InitStage, NextStage, PTL DEF Spec

\* Either program, its connection and its recording keep to their types: above all,
\* the frames that are kept and the place of the device among them stay within
\* what was allocated and the extra seconds, whenever main looks at the clock.
THEOREM ProgramTypesCorrect == Spec => []TypeOK
<1>1. StageInv => AudioTypes /\ stage \in Stages /\ sleep \in Nat /\ late \in Nat
  <2> SUFFICES ASSUME StageInv
               PROVE  AudioTypes /\ stage \in Stages /\ sleep \in Nat /\ late \in Nat
    OBVIOUS
  <2>1. StageTypes  BY DEF StageInv
  <2> DEFINE e == Extra * Rate
             f == Alloc + (Extra + 1) * Rate
             t == (NumSeconds + Extra + 2) * Rate
  <2>2. /\ Alloc \in Nat /\ e \in Nat /\ f = Alloc + e + Rate /\ f <= t /\ Rate \in Nat
        /\ f \in Nat /\ t \in Nat
    BY BoundsHold, RatesAssumption DEF Bounds
  <2>3. total \in Nat /\ total <= Alloc + e /\ frame \in Nat /\ frame <= f
    BY <2>1 DEF StageTypes
  <2> HIDE DEF e, f, t, Alloc
  <2>4. total \in 0..t /\ frame \in 0..f  BY <2>2, <2>3
  <2> QED  BY <2>1, <2>4 DEF StageTypes, AudioTypes, e, f, t
<1>2. ConnectionInv => ConnectionTypes  BY DEF ConnectionInv
<1>3. ConnectionTypes /\ AudioTypes /\ stage \in Stages /\ sleep \in Nat /\ late \in Nat
          => TypeOK
  BY DEF TypeOK, Stages
<1> QED
  BY <1>1, <1>2, <1>3, AlwaysStage, ProgramsUseLibrary, ConnectionInvariant, PTL

\* What the recorder writes is all it recorded, when it came to its loop in time: the
\* seconds it counts and the extra ones have room for it; and it never keeps more
\* than the extra seconds beyond the samples it allocated.
THEOREM TakesFit == Spec => []TakeFits
<1>1. StageInv => TakeFits
  <2> SUFFICES ASSUME StageInv, stage \in {"close", "write"}
               PROVE  /\ InTime => frame <= total
                      /\ total <= Alloc + Extra * Rate
    BY DEF TakeFits, InTime
  <2> QED  BY DEF StageInv, AtClose, AtWrite
<1> QED  BY <1>1, AlwaysStage, PTL
==============================================================================
