---------------------------- MODULE FleetPartsMC ----------------------------
(***************************************************************************)
(* Small instances of the parts of the fleet that share no state with one  *)
(* another here, checked side by side: a behaviour is of one part, chosen  *)
(* at the start, and the variables of the others stay as they began.       *)
(*                                                                         *)
(*   admission   pins and tickets (AdmissionMC)                            *)
(*   races       one host's connections with every await a step            *)
(*   relays      a machine's hypervisor setups                             *)
(*   decide      the phone's questions to a model                          *)
(*   sessions    a box's sessions                                          *)
(*   updates     a box's releases                                          *)
(*   placement   where an intent for a session goes                        *)
(*   standby     machines kept ready                                       *)
(*   signin      a person's Claude sign-in                                 *)
(*   removals    what boxes owe after a removal                            *)
(***************************************************************************)
EXTENDS AdmissionMC, SetupRelays, DecideBudget, Sessions, UpdateTrial, Placement, Standby,
        ClaudeSignIn, Removals, HostConnections

\* Two names that stand in several sets at once, so that swapping them is one
\* symmetry of every part.
CONSTANTS x1, x2

CONSTANTS pa, pb, pc, ha, hb, run, s3, ja
MCPaneHost  == pa :> ha @@ pb :> ha @@ pc :> hb
MCBoxPerson == box :> bob @@ run :> alice
MCEnrolledBy == x1 :> alice @@ x2 :> alice
MCHostOf == [s \in Sockets |-> run]
Swap == Permutations({x1, x2})

---------------------------------------------------------------------------
(* The parts *)

VARIABLE part

admissionVars == vars
Parts == {"admission", "races", "relays", "decide", "sessions", "updates", "placement",
          "standby", "signin", "removals"}

PartsInit ==
    /\ part \in Parts
    /\ Init /\ HostsInit /\ SetupRelaysInit /\ DecideInit /\ SessionsInit /\ UpdateInit
    /\ PlacementInit /\ StandbyInit /\ SignInInit /\ RemovalsInit
    /\ part # "admission" => mix = CHOOSE m \in Mixes : TRUE
    /\ part # "placement" => operators = {}
    /\ part # "standby" => wish = NoWish
    /\ IF part = "removals" THEN Cardinality(old) <= 1 ELSE old = {}

\* The others first, which TLC then leaves alone once for all steps of a part.
Admits ==
    /\ part = "admission"
    /\ UNCHANGED <<part, hostVars, setupRelaysVars, decideVars, sessionVars, updateVars,
                   placementVars, standbyVars, signInVars, removalVars>>
    /\ Next

Races ==
    /\ part = "races"
    /\ UNCHANGED <<part, admissionVars, setupRelaysVars, decideVars, sessionVars, updateVars,
                   placementVars, standbyVars, signInVars, removalVars>>
    /\ HostsNext

SetsUp ==
    /\ part = "relays"
    /\ UNCHANGED <<part, admissionVars, hostVars, decideVars, sessionVars, updateVars,
                   placementVars, standbyVars, signInVars, removalVars>>
    /\ SetupRelaysNext

Decides ==
    /\ part = "decide"
    /\ UNCHANGED <<part, admissionVars, hostVars, setupRelaysVars, sessionVars, updateVars,
                   placementVars, standbyVars, signInVars, removalVars>>
    /\ DecideNext

Runs ==
    /\ part = "sessions"
    /\ UNCHANGED <<part, admissionVars, hostVars, setupRelaysVars, decideVars, updateVars,
                   placementVars, standbyVars, signInVars, removalVars>>
    /\ SessionsNext

Updates ==
    /\ part = "updates"
    /\ UNCHANGED <<part, admissionVars, hostVars, setupRelaysVars, decideVars, sessionVars,
                   placementVars, standbyVars, signInVars, removalVars>>
    /\ UpdateNext

Directs ==
    /\ part = "placement"
    /\ UNCHANGED <<part, admissionVars, hostVars, setupRelaysVars, decideVars, sessionVars,
                   updateVars, standbyVars, signInVars, removalVars>>
    /\ PlacementNext

KeepsUp ==
    /\ part = "standby"
    /\ UNCHANGED <<part, admissionVars, hostVars, setupRelaysVars, decideVars, sessionVars,
                   updateVars, placementVars, signInVars, removalVars>>
    /\ StandbyNext

Renews ==
    /\ part = "signin"
    /\ UNCHANGED <<part, admissionVars, hostVars, setupRelaysVars, decideVars, sessionVars,
                   updateVars, placementVars, standbyVars, removalVars>>
    /\ SignInNext

Clears ==
    /\ part = "removals"
    /\ UNCHANGED <<part, admissionVars, hostVars, setupRelaysVars, decideVars, sessionVars,
                   updateVars, placementVars, standbyVars, signInVars>>
    /\ RemovalsNext

PartsNext == Admits \/ Races \/ SetsUp \/ Decides \/ Runs \/ Updates \/ Directs \/ KeepsUp \/ Renews
             \/ Clears

partsVars == <<part, admissionVars, hostVars, setupRelaysVars, decideVars, sessionVars, updateVars,
               placementVars, standbyVars, signInVars, removalVars>>

PartsSpec == PartsInit /\ [][PartsNext]_partsVars

\* What of a state differs between those of one part, for TLC's fingerprints.
Moving ==
    CASE part = "admission" -> <<part, admissionVars>>
      [] part = "races"     -> <<part, hostVars>>
      [] part = "relays"    -> <<part, setupRelaysVars>>
      [] part = "decide"    -> <<part, decideVars>>
      [] part = "sessions"  -> <<part, sessionVars>>
      [] part = "updates"   -> <<part, updateVars>>
      [] part = "placement" -> <<part, placementVars>>
      [] part = "standby"   -> <<part, standbyVars>>
      [] part = "signin"    -> <<part, signInVars>>
      [] part = "removals"  -> <<part, removalVars>>

---------------------------------------------------------------------------
\* The types of every part.
PartsTypeOK ==
    CASE part = "admission" -> TypeOK
      [] part = "races"     -> HostsTypeOK
      [] part = "relays"    -> SetupRelaysTypeOK
      [] part = "decide"    -> DecideTypeOK
      [] part = "sessions"  -> SessionsTypeOK
      [] part = "updates"   -> UpdateTypeOK
      [] part = "placement" -> PlacementTypeOK
      [] part = "standby"   -> StandbyTypeOK
      [] part = "signin"    -> SignInTypeOK
      [] part = "removals"  -> RemovalsTypeOK

\* With every await of WebCrypto a step, revocations that close nothing and
\* rebuilds that are handed closing sockets, the one connection open for a host
\* is the one the object sends on, and the registry says what that one is
\* (HostConnections has both of a runtime that handles a request to its end).
RacesAgree == part = "races" => OpenIsCurrent /\ RegistryFollowsSocket
=============================================================================
