---------------------------- MODULE PartsProofs ----------------------------
(***************************************************************************)
(* The parts side by side, as FleetPartsMC runs them: a step of one part   *)
(* is a step of its module and a stutter of every other, so whatever is    *)
(* proved of a module alone holds of it here, for every value of the       *)
(* constants and not only the ones of the run.  The two invariants that    *)
(* only the run has a name for follow from those of the parts.             *)
(***************************************************************************)
EXTENDS FleetPartsMC, AdmissionProofs, FleetProofs, SpendingProofs, HostConnectionsProofs

LEMMA EachIsAStep ==
    [PartsNext]_partsVars =>
        /\ [Next]_vars
        /\ [HostsNext]_hostVars
        /\ [SetupRelaysNext]_setupRelaysVars
        /\ [DecideNext]_decideVars
        /\ [SessionsNext]_sessionVars
        /\ [UpdateNext]_updateVars
        /\ [PlacementNext]_placementVars
        /\ [StandbyNext]_standbyVars
        /\ [SignInNext]_signInVars
        /\ [RemovalsNext]_removalVars
        /\ UNCHANGED part
<1> SUFFICES ASSUME [PartsNext]_partsVars
             PROVE  /\ UNCHANGED part
                    /\ [Next]_vars
                    /\ [HostsNext]_hostVars
                    /\ [SetupRelaysNext]_setupRelaysVars
                    /\ [DecideNext]_decideVars
                    /\ [SessionsNext]_sessionVars
                    /\ [UpdateNext]_updateVars
                    /\ [PlacementNext]_placementVars
                    /\ [StandbyNext]_standbyVars
                    /\ [SignInNext]_signInVars
                    /\ [RemovalsNext]_removalVars
  OBVIOUS
<1> USE DEF PartsNext, partsVars, Admits, Races, SetsUp, Decides, Runs, Updates, Directs,
            KeepsUp, Renews, Clears
<1>1. UNCHANGED part
  OBVIOUS
<1>2. [Next]_vars
  BY DEF admissionVars
<1>3. [HostsNext]_hostVars
  OBVIOUS
<1>4. [SetupRelaysNext]_setupRelaysVars
  OBVIOUS
<1>5. [DecideNext]_decideVars
  OBVIOUS
<1>6. [SessionsNext]_sessionVars
  OBVIOUS
<1>7. [UpdateNext]_updateVars
  OBVIOUS
<1>8. [PlacementNext]_placementVars
  OBVIOUS
<1>9. [StandbyNext]_standbyVars
  OBVIOUS
<1>10. [SignInNext]_signInVars
  OBVIOUS
<1>11. [RemovalsNext]_removalVars
  OBVIOUS
<1> QED
  BY <1>1, <1>2, <1>3, <1>4, <1>5, <1>6, <1>7, <1>8, <1>9, <1>10, <1>11

\* The run of the parts is a run of each: what FleetPartsMC checks of a part is
\* checked of that part's own specification, with nothing added or left out.
THEOREM PartsAreTheirSpecs ==
    PartsSpec =>
        /\ Spec
        /\ HostsSpec
        /\ SetupRelaysSpec
        /\ DecideSpec
        /\ SessionsSpec
        /\ UpdateSpec
        /\ PlacementSpec
        /\ StandbySpec
        /\ SignInSpec
        /\ RemovalsSpec
<1>1. PartsInit =>
          /\ Init
          /\ HostsInit
          /\ SetupRelaysInit
          /\ DecideInit
          /\ SessionsInit
          /\ UpdateInit
          /\ PlacementInit
          /\ StandbyInit
          /\ SignInInit
          /\ RemovalsInit
  BY DEF PartsInit
<1> QED
  BY <1>1, EachIsAStep, PTL DEF PartsSpec, Spec, HostsSpec, SetupRelaysSpec, DecideSpec,
     SessionsSpec, UpdateSpec, PlacementSpec, StandbySpec, SignInSpec, RemovalsSpec

\* The state of every part keeps its type, whichever one a behaviour is of.
THEOREM PartsTypes == PartsSpec => []PartsTypeOK
<1>1. PartsSpec => [](part \in Parts)
  <2>1. PartsInit => part \in Parts
    BY DEF PartsInit
  <2>2. part \in Parts /\ [PartsNext]_partsVars => (part \in Parts)'
    BY EachIsAStep
  <2> QED
    BY <2>1, <2>2, PTL DEF PartsSpec
<1>2. /\ part \in Parts
      /\ TypeOK /\ HostsTypeOK /\ SetupRelaysTypeOK /\ DecideTypeOK /\ SessionsTypeOK
      /\ UpdateTypeOK /\ PlacementTypeOK /\ StandbyTypeOK /\ SignInTypeOK /\ RemovalsTypeOK
      => PartsTypeOK
  BY DEF Parts, PartsTypeOK
<1> QED
  BY <1>1, <1>2, PartsAreTheirSpecs, TypeCorrect, HostsTypes, SetupRelaysTypes,
     DecideTypes, SessionsTypes, UpdateTypes, PlacementTypes, StandbyTypes, SignInIsTyped,
     RemovalsTypes, PTL

\* With every await of WebCrypto a step and closing sockets handed back, a host
\* has one connection and the registry says what that one is (fleet-do.js:342,
\* :1642 and :1716), in the run of the parts as in any other.
THEOREM RacesDoAgree == PartsSpec => []RacesAgree
<1>1. OpenIsCurrent /\ RegistryFollowsSocket => RacesAgree
  BY DEF RacesAgree
<1> QED
  BY <1>1, PartsAreTheirSpecs, OneSocketPerHost, RegistryIsTrue, PTL
=============================================================================
