----------------------------- MODULE StateReport -----------------------------
(***************************************************************************)
(* What one executor of an object tells the next one: how SMObject builds  *)
(* a VStateReport from its shared state (object.go) and what a receiver    *)
(* accepts (rms/proto_vnvn_validation_vstatereport.go).                    *)
(*                                                                         *)
(* The shared state is a record o with the fields state, dirty, known and  *)
(* pending; a report is a record.  References are abstracted to whether    *)
(* they are set, a descriptor to the requests whose effect its memory      *)
(* holds, and the validated state to the dirty one, which SMObject.migrate *)
(* puts in its place.                                                      *)
(***************************************************************************)
EXTENDS RequestLists

CONSTANT ObjectPulse      \* the pulse number in the reference of the object

ASSUME ObjectPulseAssumption == ObjectPulse \in Pulses

-----------------------------------------------------------------------------
Tolerable == "Tolerable"          \* ordered: isolation.CallTolerable
Intolerable == "Intolerable"      \* unordered: isolation.CallIntolerable
Flags == {Tolerable, Intolerable}

(* object.State *)
ObjectState == {"Unknown", "Missing", "Inactive", "Empty", "HasState"}

(* rms.StateStatus* *)
StateStatus == {"Ready", "Empty", "Inactive", "Missing"}

(* descriptor.Object or nil.  The memory of an object that existed before  *)
(* the first pulse of the model holds Genesis.                             *)
Genesis == "genesis"
Descriptor == [ has : BOOLEAN, deactivated : BOOLEAN,
                memory : SUBSET (Requests \cup {Genesis}) ]
NoDescriptor == [has |-> FALSE, deactivated |-> FALSE, memory |-> {}]
NewDescriptor(memory, deactivated) ==
    [has |-> TRUE, deactivated |-> deactivated, memory |-> memory]

VStateReport == [ Status                        : StateStatus,
                  OrderedPendingCount           : Int,
                  OrderedPendingEarliestPulse   : Pulses \cup {UnknownPulse},
                  UnorderedPendingCount         : Int,
                  UnorderedPendingEarliestPulse : Pulses \cup {UnknownPulse},
                  LatestDirtyState              : BOOLEAN,
                  ProvidedContent               : Descriptor ]

(* The report of an executor that has none: vstaterequest stepBuildMissing *)
MissingReport == [ Status                        |-> "Missing",
                   OrderedPendingCount           |-> 0,
                   OrderedPendingEarliestPulse   |-> UnknownPulse,
                   UnorderedPendingCount         |-> 0,
                   UnorderedPendingEarliestPulse |-> UnknownPulse,
                   LatestDirtyState              |-> FALSE,
                   ProvidedContent               |-> NoDescriptor ]

-----------------------------------------------------------------------------
\* Seeded fault: the calls of this executor do not count.
GetEarliestPulsePending(o, flag) == o.pending[flag].earliestActivePulse

(* Info.GetEarliestPulse: the pending table wins when the working table is *)
(* idle or younger (IsBefore is false for an Unknown pulse)                *)
GetEarliestPulse(o, flag) ==
    LET minPending == o.pending[flag].earliestActivePulse
        minKnown   == o.known[flag].earliestActivePulse
    IN  IF \/ minKnown = UnknownPulse
           \/ minPending # UnknownPulse /\ minPending < minKnown
        THEN minPending ELSE minKnown

PendingCount(o, flag) == o.pending[flag].countActive + o.known[flag].countActive

ReportStatus(o) ==
    CASE o.state = "Missing"  -> "Missing"
      [] o.state = "Inactive" -> "Inactive"
      [] o.state = "Empty"    -> IF o.known[Tolerable].countActive = 0
                                 THEN "Missing" ELSE "Empty"
      [] o.state = "HasState" -> "Ready"

(* Info.BuildStateReport, and the content that SMObject.migrate adds to it *)
BuildStateReport(o) ==
    LET status == ReportStatus(o)
    IN  [ Status                        |-> status,
          OrderedPendingCount           |-> PendingCount(o, Tolerable),
          OrderedPendingEarliestPulse   |-> GetEarliestPulse(o, Tolerable),
          UnorderedPendingCount         |-> PendingCount(o, Intolerable),
          UnorderedPendingEarliestPulse |-> GetEarliestPulse(o, Intolerable),
          LatestDirtyState              |-> /\ o.dirty.has
                                            /\ ~ o.dirty.deactivated
                                            /\ o.dirty.memory # {},
          ProvidedContent               |-> IF status # "Inactive"
                                            THEN o.dirty ELSE NoDescriptor ]

-----------------------------------------------------------------------------
MaxPendingCount == 127

(* validateStatusReady: both queues obey the same rule *)
ValidPendings(count, earliest, currentPulse) ==
    \/ count = 0 /\ earliest = UnknownPulse
    \/ /\ count > 0 /\ count < MaxPendingCount
       /\ earliest # UnknownPulse
       /\ ObjectPulse <= earliest /\ earliest <= currentPulse

(* validateIsEmpty of the content, validateStateAndCodeAreEmpty *)
NoContent(report) == ~ report.ProvidedContent.has /\ ~ report.LatestDirtyState

(* validateStatusEmpty *)
ValidEmpty(report, currentPulse) ==
    /\ report.OrderedPendingCount = 1
    /\ report.UnorderedPendingCount = 0
    /\ report.UnorderedPendingEarliestPulse = UnknownPulse
    /\ report.OrderedPendingEarliestPulse # UnknownPulse
    /\ report.OrderedPendingEarliestPulse < currentPulse
    /\ ObjectPulse <= report.OrderedPendingEarliestPulse
    /\ NoContent(report)

(* validateStatusMissingOrInactive *)
ValidMissingOrInactive(report) ==
    /\ report.OrderedPendingCount = 0
    /\ report.Status = "Missing" => report.UnorderedPendingCount = 0
    /\ report.OrderedPendingEarliestPulse = UnknownPulse
    /\ report.UnorderedPendingEarliestPulse = UnknownPulse
    /\ NoContent(report)

(* VStateReport.Validate.  The first two checks of SMVStateReport reject a *)
(* subset of what this rejects.                                            *)
Validate(report, currentPulse) ==
    CASE report.Status = "Ready" ->
            /\ ValidPendings(report.UnorderedPendingCount,
                             report.UnorderedPendingEarliestPulse, currentPulse)
            /\ ValidPendings(report.OrderedPendingCount,
                             report.OrderedPendingEarliestPulse, currentPulse)
      [] report.Status = "Empty" -> ValidEmpty(report, currentPulse)
      [] OTHER -> ValidMissingOrInactive(report)
=============================================================================
