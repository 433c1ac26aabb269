--------------------------- MODULE ScanLifecycle ---------------------------
(***************************************************************************)
(* What everybody who reads an ImageScan may take from the controller as   *)
(* it is: the life of the custom resource, one phase at a time.  A scan    *)
(* starts New (created, status empty), may become Pending once Aqua        *)
(* accepted it, and ends Registered or Error; Registered only if Aqua has  *)
(* reported the very image and digest of this resource as found.  After a  *)
(* verdict the resource is only ever deleted: so the code has it, where    *)
(* nothing reads --rescan-interval.                                        *)
(***************************************************************************)
EXTENDS ScanTypes

VARIABLES
    scan,       \* scan[k]: the stored ImageScan k, or NoObject
    found       \* the Aqua entries that GetScanResult has reported found

lifecycleVars == <<scan, found>>

Live(k) == scan[k] # NoObject /\ scan[k].phase \notin Terminal

Init == /\ scan = [k \in Scans |-> NoObject]
        /\ found = {}

Create(k, image) ==
    /\ scan[k] = NoObject
    /\ scan' = [scan EXCEPT ![k] = NewScan(image)]
    /\ UNCHANGED found

Delete(k) ==
    /\ scan[k] # NoObject
    /\ scan' = [scan EXCEPT ![k] = NoObject]
    /\ UNCHANGED found

AquaReports(e) ==
    /\ found' = found \cup {e}
    /\ UNCHANGED scan

Accept(k) ==
    /\ Live(k)
    /\ scan' = [scan EXCEPT ![k] = WithStatus(@, "Pending", 0)]
    /\ UNCHANGED found

Register(k) ==
    /\ Live(k)
    /\ Entry(k, scan[k].image) \in found
    /\ scan' = [scan EXCEPT ![k] = WithStatus(@, "Registered", 0)]
    /\ UNCHANGED found

Fail(k) ==
    /\ Live(k)
    /\ scan' = [scan EXCEPT ![k] = WithStatus(@, "Error", @.retryCount + 1)]
    /\ UNCHANGED found

Next == \/ \E k \in Scans, image \in Images : Create(k, image)
        \/ \E k \in Scans : Delete(k) \/ Accept(k) \/ Register(k) \/ Fail(k)
        \/ \E e \in Entries : AquaReports(e)

Spec == Init /\ [][Next]_lifecycleVars
=============================================================================
