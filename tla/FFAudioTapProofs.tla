-------------------------- MODULE FFAudioTapProofs --------------------------
(***************************************************************************)
(* Proofs about FFAudioTap: IInv is inductive, and says where our callback *)
(* is, who may be inside it, and what the panel tells.                     *)
(***************************************************************************)
EXTENDS FFAudioTap, TLAPS

\* The lookup by name finds one source at most.
LEMMA OneAudible ==
  ASSUME NamesInv, NEW n, NEW s \in Audible(n)
  PROVE Audible(n) = {s}
  BY DEF NamesInv, Audible, Named

LEMMA AudioInit == Init => IInv
  <1> SUFFICES ASSUME Init PROVE IInv
    OBVIOUS
  <1>1. TypeOK
    <2>1. /\ registered \in [Feeds -> Nat]
          /\ feeding \in [Feeds -> {"no", "analyse", "publish"}]
      BY DEF Init
    <2>2. src \in [Srcs -> [life : {"none", "live", "gone"}, name : Names \union {NoName}]]
      BY DEF Init
    <2>3. 0 \in 0..MaxRenames
      BY AudioTapAssumption
    <2>. QED  BY <2>1, <2>2, <2>3 DEF Init, TypeOK
  <1>2. ConnInv
    BY DEF Init, ConnInv, HaveLive
  <1>3. FeedInv
    BY DEF Init, FeedInv
  <1>4. NamesInv
    BY DEF Init, NamesInv, Live
  <1>5. DestroyInv
    BY DEF Init, DestroyInv
  <1>. QED  BY <1>1, <1>2, <1>3, <1>4, <1>5 DEF IInv

\* disconnect_all leaves the callback in no list.
LEMMA DisconnectEmpties ==
  ASSUME TypeOK, ConnInv, DisconnectAll
  PROVE /\ registered' = [f \in Feeds |-> 0]
        /\ masterConnected' = FALSE /\ weak' = None
        /\ \A f \in Feeds : registered[f] > 0 => feeding[f] = "no"
  <1>1. \A f \in Feeds : registered'[f] = 0
    BY DEF DisconnectAll, ConnInv
  <1>2. \A f \in Feeds : registered[f] > 0 => feeding[f] = "no"
    BY DEF DisconnectAll, ConnInv
  <1>. QED  BY <1>1, <1>2 DEF DisconnectAll

\* Connecting when nothing is connected puts the callback in the list of the source
\* found, if one is, and in no other.
LEMMA ConnectSourceOne ==
  ASSUME TypeOK, ConnInv, NamesInv, ~masterConnected, ~HaveLive,
         NEW n, ConnectSource(n), UNCHANGED src
  PROVE /\ weak' \in Srcs \union {None}
        /\ weak' # None => HaveLive'
        /\ registered' \in [Feeds -> Nat]
        /\ \A f \in Feeds : registered'[f] >= registered[f]
        /\ \A f \in Feeds : registered'[f] = IF HaveLive' /\ f = weak' THEN 1 ELSE 0
  <1>1. \A f \in Feeds : registered[f] = 0
    BY DEF ConnInv
  <1>2. registered' = [f \in Feeds |-> IF f \in Audible(n) THEN 1 ELSE 0]
    BY <1>1 DEF ConnectSource, Register
  <1>3. CASE Audible(n) = {}
    BY <1>1, <1>2, <1>3 DEF ConnectSource, HaveLive
  <1>4. CASE Audible(n) # {}
    <2>1. weak' \in Audible(n)
      BY <1>4 DEF ConnectSource
    <2>2. Audible(n) = {weak'}
      BY <2>1, OneAudible
    <2>3. weak' \in Srcs /\ weak' # None /\ src'[weak'].life = "live"
      BY <2>1, AudioTapAssumption DEF Audible, Named, Live
    <2>4. HaveLive'
      BY <2>3 DEF HaveLive, Live
    <2>. QED  BY <1>1, <1>2, <2>2, <2>3, <2>4
  <1>. QED  BY <1>3, <1>4

----------------------------------------------------------------------------
(* One step at a time *)

LEMMA SceneStep == IInv /\ Scene => IInv'
  <1>1. ASSUME IInv, NEW s \in Srcs, NEW n \in Names, Create(s, n)
        PROVE IInv'
    <2>1. src' = [src EXCEPT ![s] = [life |-> "live", name |-> n]]
      BY <1>1 DEF Create
    <2>2. src[s].life = "none" /\ \A t \in Srcs : Live(t) => src[t].name # n
      BY <1>1 DEF Create, Named
    <2>3. TypeOK'
      BY <1>1, <2>1 DEF IInv, TypeOK, Create, Raise, tapVars, callVars
    <2>4. NamesInv'
      BY <1>1, <2>1, <2>2 DEF IInv, TypeOK, NamesInv, Live
    <2>5. weak # s
      BY <1>1, <2>2, AudioTapAssumption DEF IInv, ConnInv
    <2>6. ConnInv' /\ FeedInv' /\ DestroyInv'
      BY <1>1, <2>1, <2>5
      DEF IInv, TypeOK, ConnInv, FeedInv, DestroyInv, Create, Raise, HaveLive, Live, tapVars, callVars
    <2>. QED  BY <2>3, <2>4, <2>6 DEF IInv
  <1>2. ASSUME IInv, NEW s \in Srcs, NEW n \in Names, Rename(s, n)
        PROVE IInv'
    BY <1>2, AudioTapAssumption
    DEF IInv, TypeOK, ConnInv, FeedInv, NamesInv, DestroyInv, Rename, Raise, Named, HaveLive,
        Live, Feeds, tapVars, callVars
  <1>3. ASSUME IInv, NEW s \in Srcs, Expire(s)
        PROVE IInv'
    BY <1>3, AudioTapAssumption
    DEF IInv, TypeOK, ConnInv, FeedInv, NamesInv, DestroyInv, Expire, HaveLive,
        Live, Feeds, tapVars, callVars
  <1>. QED  BY <1>1, <1>2, <1>3 DEF Scene

LEMMA FeedStep == ASSUME IInv, NEW f \in Feeds, Feed(f) PROVE IInv'
  <1>1. CASE FeedBegins(f)
    BY <1>1 DEF IInv, TypeOK, ConnInv, FeedInv, NamesInv, DestroyInv, FeedBegins, HaveLive,
       Live, tapVars, callVars, sceneVars
  <1>2. CASE Analyse(f)
    BY <1>2 DEF IInv, TypeOK, ConnInv, FeedInv, NamesInv, DestroyInv, Analyse, HaveLive,
       Live, tapVars, callVars, sceneVars
  <1>3. CASE Publish(f)
    BY <1>3 DEF IInv, TypeOK, ConnInv, FeedInv, NamesInv, DestroyInv, Publish, HaveLive,
       Live, tapVars, callVars, sceneVars
  <1>. QED  BY <1>1, <1>2, <1>3 DEF Feed

LEMMA SignalStep == IInv /\ OnSignal => IInv'
  <1> SUFFICES ASSUME IInv, OnSignal PROVE IInv'
    OBVIOUS
  <1>. USE DEF IInv
  <1>1. CASE mode = "source" /\ ~HaveLive
    <2>1. ConnectSource(sourceName) /\ UNCHANGED src /\ ~masterConnected
      BY <1>1 DEF OnSignal, ConnInv
    <2>2. /\ weak' \in Srcs \union {None}
          /\ weak' # None => HaveLive'
          /\ registered' \in [Feeds -> Nat]
          /\ \A f \in Feeds : registered'[f] >= registered[f]
          /\ \A f \in Feeds : registered'[f] = IF HaveLive' /\ f = weak' THEN 1 ELSE 0
      BY <1>1, <2>1, ConnectSourceOne
    <2>3. TypeOK'
      BY <1>1, <2>2 DEF TypeOK, OnSignal, callVars
    <2>4. ConnInv'
      BY <1>1, <2>1, <2>2 DEF ConnInv, OnSignal, ConnFree, HaveLive, Live, callVars
    <2>5. FeedInv'
      BY <2>2 DEF FeedInv, TypeOK, OnSignal
    <2>6. NamesInv' /\ DestroyInv'
      BY DEF NamesInv, DestroyInv, TypeOK, OnSignal, Live, callVars
    <2>. QED  BY <2>3, <2>4, <2>5, <2>6
  <1>2. CASE ~(mode = "source" /\ ~HaveLive)
    BY <1>2 DEF TypeOK, ConnInv, FeedInv, NamesInv, DestroyInv, OnSignal, HaveLive, Live, callVars
  <1>. QED  BY <1>1, <1>2

LEMMA DescribeStep == IInv /\ Describe => IInv'
  BY AudioTapAssumption
  DEF IInv, TypeOK, ConnInv, FeedInv, NamesInv, DestroyInv, Describe, AfterLook, HaveLive, Live,
      callVars, sceneVars

LEMMA ConfigureCall ==
  ASSUME IInv, NEW m \in {"master", "source"}, NEW n \in Names \union {NoName}, Configure(m, n)
  PROVE IInv'
  BY DEF IInv, TypeOK, ConnInv, FeedInv, NamesInv, DestroyInv, Configure, HaveLive, Live,
     tapVars, sceneVars

LEMMA ConnectStep == IInv /\ Connect => IInv'
  <1> SUFFICES ASSUME IInv, Connect PROVE IInv'
    OBVIOUS
  <1>. USE DEF IInv
  <1>1. ~masterConnected /\ weak = None /\ ~HaveLive
    BY DEF Connect, ConnInv, HaveLive
  <1>2. \A f \in Feeds : registered[f] = 0
    BY <1>1 DEF ConnInv
  <1>3. NamesInv' /\ DestroyInv'
    BY DEF NamesInv, DestroyInv, Connect, Live, TypeOK, sceneVars
  <1>4. CASE want.mode = "master"
    <2>1. UNCHANGED <<sourceName, weak>> /\ ConnectMaster /\ mode' = "master" /\ pc' = "idle"
      BY <1>4 DEF Connect
    <2>2. registered' = [f \in Feeds |-> IF f = Master /\ masterConnected' THEN 1 ELSE 0]
          /\ masterConnected' \in BOOLEAN
      <3>1. CASE masterConnected' = TRUE /\ Register({Master})
        BY <1>2, <3>1 DEF Register
      <3>2. CASE masterConnected' = FALSE /\ Register({})
        BY <1>2, <3>2 DEF Register
      <3>. QED  BY <2>1, <3>1, <3>2 DEF ConnectMaster
    <2>3. TypeOK'
      BY <2>1, <2>2 DEF TypeOK, Connect, sceneVars
    <2>4. ConnInv'
      BY <1>1, <2>1, <2>2 DEF ConnInv, HaveLive
    <2>5. FeedInv'
      BY <1>2 DEF FeedInv, Connect, TypeOK
    <2>. QED  BY <1>3, <2>3, <2>4, <2>5
  <1>5. CASE want.mode = "source"
    <2>1. ConnectSource(want.name) /\ sourceName' = want.name /\ UNCHANGED <<masterConnected, src>>
          /\ mode' = "source" /\ pc' = "idle"
      BY <1>5 DEF Connect, sceneVars
    <2>2. /\ weak' \in Srcs \union {None}
          /\ weak' # None => HaveLive'
          /\ registered' \in [Feeds -> Nat]
          /\ \A f \in Feeds : registered'[f] = IF HaveLive' /\ f = weak' THEN 1 ELSE 0
      BY <1>1, <2>1, ConnectSourceOne
    <2>3. TypeOK'
      BY <2>1, <2>2 DEF TypeOK, Connect, sceneVars
    <2>4. ConnInv'
      BY <1>1, <2>1, <2>2 DEF ConnInv, HaveLive, Live
    <2>5. FeedInv'
      BY <1>2 DEF FeedInv, Connect, TypeOK
    <2>. QED  BY <1>3, <2>3, <2>4, <2>5
  <1>. QED  BY <1>4, <1>5 DEF TypeOK

LEMMA ConfigureStep == IInv /\ ConfigureSteps => IInv'
  <1>1. IInv /\ KeepConnection => IInv'
    BY DEF IInv, TypeOK, ConnInv, FeedInv, NamesInv, DestroyInv, KeepConnection, HaveLive, Live,
       tapVars, sceneVars
  <1>2. IInv /\ BeginReconnect => IInv'
    BY AudioTapAssumption
    DEF IInv, TypeOK, ConnInv, FeedInv, NamesInv, DestroyInv, BeginReconnect, Same, HaveLive, Live,
        sceneVars
  <1>3. ASSUME IInv, Disconnect PROVE IInv'
    <2>1. /\ registered' = [f \in Feeds |-> 0]
          /\ masterConnected' = FALSE /\ weak' = None
          /\ \A f \in Feeds : registered[f] > 0 => feeding[f] = "no"
      BY <1>3, DisconnectEmpties DEF IInv, Disconnect
    <2>. QED
      BY <1>3, <2>1
      DEF IInv, TypeOK, ConnInv, FeedInv, NamesInv, DestroyInv, Disconnect, HaveLive, Live, sceneVars
  <1>. QED  BY <1>1, <1>2, <1>3, ConnectStep DEF ConfigureSteps

LEMMA DestroyStep == IInv /\ Destroy => IInv'
  <1>1. IInv /\ DestroySignals => IInv'
    BY DEF IInv, TypeOK, ConnInv, FeedInv, NamesInv, DestroyInv, DestroySignals, HaveLive, Live,
       tapVars, sceneVars
  <1>2. ASSUME IInv, DestroyConnections PROVE IInv'
    <2>1. /\ registered' = [f \in Feeds |-> 0]
          /\ masterConnected' = FALSE /\ weak' = None
          /\ \A f \in Feeds : registered[f] > 0 => feeding[f] = "no"
      BY <1>2, DisconnectEmpties DEF IInv, DestroyConnections
    <2>. QED
      BY <1>2, <2>1
      DEF IInv, TypeOK, ConnInv, FeedInv, NamesInv, DestroyInv, DestroyConnections, HaveLive, Live,
          sceneVars
  <1>3. IInv /\ DestroyRest => IInv'
    BY DEF IInv, TypeOK, ConnInv, FeedInv, NamesInv, DestroyInv, DestroyRest, HaveLive, Live,
       tapVars, sceneVars
  <1>. QED  BY <1>1, <1>2, <1>3 DEF Destroy

LEMMA AudioStep == IInv /\ [Next]_vars => IInv'
  <1>1. IInv /\ Next => IInv'
    BY SceneStep, FeedStep, SignalStep, DescribeStep, ConfigureCall, ConfigureStep, DestroyStep
    DEF Next
  <1>2. IInv /\ UNCHANGED vars => IInv'
    BY DEF IInv, TypeOK, ConnInv, FeedInv, NamesInv, DestroyInv, HaveLive, Live, vars
  <1>. QED  BY <1>1, <1>2

----------------------------------------------------------------------------

\* In every reachable state the fields of struct ff_audio say where the callback is
\* registered, callbacks run only where they are registered, and the destruction has
\* waited for what it must wait for.
THEOREM AudioInvariant == Spec => []IInv
  BY AudioInit, AudioStep, PTL DEF Spec

\* Every variable keeps its type.
THEOREM AudioTypeOK == Spec => []TypeOK
  <1>1. IInv => TypeOK
    BY DEF IInv
  <1>. QED  BY <1>1, AudioInvariant, PTL

\* The frames of an instance have one writer, for any number of sources and names:
\* what FFHandoff assumes of ff_audio.c.
THEOREM AudioOneWriter == Spec => []AtMostOneFeed
  <1>1. IInv => AtMostOneFeed
    <2> SUFFICES ASSUME IInv PROVE AtMostOneFeed
      OBVIOUS
    <2>1. \A f \in Feeds : registered[f] \in Nat /\ registered[f] <= 1
      BY DEF IInv, TypeOK, ConnInv
    <2>2. \A f \in Feeds : registered[f] > 0 \/ feeding[f] # "no" =>
            (f = Master /\ masterConnected) \/ (HaveLive /\ f = weak)
      BY DEF IInv, ConnInv, FeedInv
    <2>3. ~(masterConnected /\ HaveLive)
      BY DEF IInv, ConnInv, HaveLive
    <2>. QED  BY <2>1, <2>2, <2>3 DEF AtMostOneFeed
  <1>. QED  BY <1>1, AudioInvariant, PTL

\* The panel says all is well exactly when something feeds the instance.
THEOREM AudioSaysWhatItHears == Spec => []SaysWhatItHears
  <1>1. IInv => SaysWhatItHears
    <2> SUFFICES ASSUME IInv PROVE SaysOK <=> \E f \in Feeds : registered[f] > 0
      BY DEF SaysWhatItHears
    <2>1. \A f \in Feeds : registered[f] > 0 <=>
            (f = Master /\ masterConnected) \/ (HaveLive /\ f = weak)
      BY DEF IInv, ConnInv
    <2>2. HaveLive => weak \in Feeds
      BY DEF IInv, TypeOK, HaveLive, Feeds
    <2>3. Master \in Feeds
      BY DEF Feeds
    <2>4. CASE mode = "source"
      BY <2>1, <2>2, <2>4 DEF IInv, ConnInv, SaysOK
    <2>5. CASE mode # "source"
      BY <2>1, <2>3, <2>5 DEF IInv, ConnInv, SaysOK, HaveLive
    <2>. QED  BY <2>4, <2>5
  <1>. QED  BY <1>1, AudioInvariant, PTL

\* No audio callback and no signal handler is inside the tap when it is freed, nor can
\* one come.
THEOREM AudioNobodyInside == Spec => []NobodyInside
  <1>1. IInv => NobodyInside
    <2> SUFFICES ASSUME IInv, life = "gone"
                 PROVE raised = 0 /\ \A f \in Feeds : registered[f] = 0 /\ feeding[f] = "no"
      BY DEF NobodyInside
    <2>1. raised = 0 /\ ~masterConnected /\ weak = None
      BY DEF IInv, DestroyInv
    <2>2. \A f \in Feeds : registered[f] = 0
      BY <2>1 DEF IInv, ConnInv, HaveLive
    <2>. QED  BY <2>1, <2>2 DEF IInv, FeedInv
  <1>. QED  BY <1>1, AudioInvariant, PTL
=============================================================================
