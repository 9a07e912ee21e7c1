------------------------------ MODULE Startup ------------------------------
(***************************************************************************)
(* How cmd/run.go puts a node together: start creates the clients, the     *)
(* reorg detectors and the syncers that the requested components need, in  *)
(* one fixed order, and hands them to the components.  An object that is   *)
(* not needed is a nil pointer.  The reorg detectors and all components    *)
(* run in goroutines; a failure that reaches log.Fatal ends the process.   *)
(***************************************************************************)
EXTENDS Naturals, Sequences, FiniteSets

CONSTANT StartConfigs  \* the configurations to start with

VARIABLES
    components,  \* the --components flag
    config,      \* the parts of the configuration that decide what is built
    building,    \* position in Order, then the loop over the components
    objects,     \* what has been created so far
    holdsNil,    \* what was created with a nil argument that it dereferences
    started,     \* components whose goroutine has been started
    exited

startVars == <<components, config, building, objects, holdsNil, started, exited>>

Components == {"sequence-sender", "aggregator", "aggoracle", "rpc", "aggsender", "l1infotreesync"}

Detectors == {"reorgDetectorL1", "reorgDetectorL2"}

Configs == [claimSponsor : BOOLEAN, validium : BOOLEAN,
            version : {"banana", "elderberry", "other"}, da : {"committee", "other"}]

ASSUME StartupAssumption == StartConfigs \subseteq Configs

-----------------------------------------------------------------------------
(* What each object is created for, and what its constructor is handed     *)

isNeeded(casesWhereNeeded) == casesWhereNeeded \cap components # {}

runL1ClientIfNeeded ==
    [needed |-> isNeeded(Components), uses |-> {}]

\* Mutant of runL2ClientIfNeeded: the AggSender is forgotten.
runL2ClientForgotten ==
    [needed |-> isNeeded({"aggoracle", "rpc"}), uses |-> {}]

runL2ClientIfNeeded ==
    [needed |-> isNeeded({"aggoracle", "rpc", "aggsender"}), uses |-> {}]

runReorgDetectorL1IfNeeded ==
    [needed |-> isNeeded(Components), uses |-> {"l1Client"}]

runReorgDetectorL2IfNeeded ==
    [needed |-> isNeeded({"aggoracle", "rpc", "aggsender"}), uses |-> {"l2Client"}]

runL1InfoTreeSyncerIfNeeded ==
    [needed |-> isNeeded(Components \ {"aggregator"}), uses |-> {"reorgDetectorL1", "l1Client"}]

runClaimSponsorIfNeeded ==
    [needed |-> isNeeded({"rpc"}) /\ config.claimSponsor, uses |-> {"l2Client"}]

runBridgeSyncL1IfNeeded ==
    [needed |-> isNeeded({"rpc"}), uses |-> {"reorgDetectorL1", "l1Client"}]

runBridgeSyncL2IfNeeded ==
    [needed |-> isNeeded({"rpc", "aggsender"}), uses |-> {"reorgDetectorL2", "l2Client"}]

runLastGERSyncIfNeeded ==
    [needed |-> isNeeded({"rpc"}), uses |-> {"reorgDetectorL2", "l2Client", "l1InfoTreeSync"}]

\* The statements of start before its loop, in their order.
Order == <<"l1Client", "l2Client", "reorgDetectorL1", "reorgDetectorL2", "l1InfoTreeSync",
           "claimSponsor", "l1BridgeSync", "l2BridgeSync", "lastGERSync">>

Object(o) ==
    CASE o = "l1Client"        -> runL1ClientIfNeeded
      [] o = "l2Client"        -> runL2ClientIfNeeded
      [] o = "reorgDetectorL1" -> runReorgDetectorL1IfNeeded
      [] o = "reorgDetectorL2" -> runReorgDetectorL2IfNeeded
      [] o = "l1InfoTreeSync"  -> runL1InfoTreeSyncerIfNeeded
      [] o = "claimSponsor"    -> runClaimSponsorIfNeeded
      [] o = "l1BridgeSync"    -> runBridgeSyncL1IfNeeded
      [] o = "l2BridgeSync"    -> runBridgeSyncL2IfNeeded
      [] o = "lastGERSync"     -> runLastGERSyncIfNeeded

\* No data availability layer is created for a rollup.
newDataAvailability ==
    [ok |-> config.validium => config.da = "committee",
     made |-> IF config.validium THEN {"dataAvailability"} ELSE {}]

\* The four builders; only those of Banana read the L1 info tree, and only
\* those of a validium post to the data availability layer.
newTxBuilder ==
    [ok |-> newDataAvailability.ok /\ config.version # "other",
     uses |-> (IF config.validium THEN {"dataAvailability"} ELSE {}) \cup
              (IF config.version = "banana" THEN {"l1InfoTreeSync", "l1Client"} ELSE {})]

createSequenceSender ==
    [ok |-> newTxBuilder.ok, makes |-> newDataAvailability.made, uses |-> newTxBuilder.uses]

createAggregator == [ok |-> TRUE, makes |-> {}, uses |-> {}]

createAggoracle == [ok |-> TRUE, makes |-> {}, uses |-> {"l1Client", "l2Client", "l1InfoTreeSync"}]

\* The claim sponsor is handed over as well, and may be nil.
createRPC ==
    [ok |-> TRUE, makes |-> {},
     uses |-> {"l1InfoTreeSync", "lastGERSync", "l1BridgeSync", "l2BridgeSync"}]

createAggSender ==
    [ok |-> TRUE, makes |-> {}, uses |-> {"l1Client", "l1InfoTreeSync", "l2BridgeSync"}]

Component(c) ==
    CASE c = "sequence-sender" -> createSequenceSender
      [] c = "aggregator"      -> createAggregator
      [] c = "aggoracle"       -> createAggoracle
      [] c = "rpc"             -> createRPC
      [] c = "aggsender"       -> createAggSender
      [] c = "l1infotreesync"  -> [ok |-> TRUE, makes |-> {}, uses |-> {}]

-----------------------------------------------------------------------------

StartupInit ==
    /\ components \in SUBSET Components \ {{}}
    /\ config \in StartConfigs
    /\ building = 1
    /\ objects = {} /\ holdsNil = {} /\ started = {}
    /\ exited = FALSE

Fatal ==
    /\ exited' = TRUE
    /\ UNCHANGED <<components, config, building, objects, holdsNil, started>>

\* One statement of start: the object is skipped, created, or its constructor
\* fails.
CreateObject ==
    /\ ~exited /\ building <= Len(Order)
    /\ LET o == Order[building] IN
       \/ /\ building' = building + 1
          /\ objects' = IF Object(o).needed THEN objects \cup {o} ELSE objects
          /\ holdsNil' = IF Object(o).needed /\ ~(Object(o).uses \subseteq objects)
                         THEN holdsNil \cup {o} ELSE holdsNil
          /\ UNCHANGED <<components, config, started, exited>>
       \/ Object(o).needed /\ Fatal

\* One round of the loop: the component is created and its goroutine started.
StartComponent(c) ==
    /\ ~exited /\ building > Len(Order) /\ c \in components \ started
    /\ \/ /\ Component(c).ok
          /\ started' = started \cup {c}
          /\ objects' = objects \cup Component(c).makes
          /\ holdsNil' = IF Component(c).uses \subseteq objects' THEN holdsNil
                         ELSE holdsNil \cup {c}
          /\ UNCHANGED <<components, config, building, exited>>
       \/ c \notin {"rpc", "l1infotreesync"} /\ Fatal

\* The goroutine around ReorgDetector.Start offers an error on a channel, which
\* a second goroutine reads.
DetectorError(d) == ~exited /\ d \in objects /\ Fatal

\* Aggregator.Start or Server.Start returns an error.
ComponentFails == ~exited /\ started \cap {"aggregator", "rpc"} # {} /\ Fatal

waitSignal == ~exited /\ started = components /\ Fatal

StartupNext ==
    \/ CreateObject
    \/ \E c \in Components : StartComponent(c)
    \/ \E d \in Detectors : DetectorError(d)
    \/ ComponentFails \/ waitSignal

StartupSpec == StartupInit /\ [][StartupNext]_startVars

-----------------------------------------------------------------------------
(* Properties                                                              *)

\* Whatever components are requested together, nothing is built on an object
\* that was not created: the lists of the run...IfNeeded functions and the
\* order of start agree with what each constructor dereferences.
NoNilArgument == holdsNil = {}
=============================================================================
