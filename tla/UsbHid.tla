------------------------------- MODULE UsbHid -------------------------------
(***************************************************************************)
(* The USB mouse driver (2-usbhid/hid-core.c): the life of its input URB   *)
(* between the HID core that starts, opens, closes and stops the device,   *)
(* the completion handler that submits it again and again, and a device    *)
(* that is unplugged. Reports fit in the buffer of usbhid_bufsize bytes.   *)
(***************************************************************************)
EXTENDS Integers, FiniteSets

CONSTANTS
    Users,     \* who may open the device: the input layer, hidraw
    MaxOpens   \* bound: opens and probes

VARIABLES
    plugged,   \* the device is there
    bound,     \* what probe, disconnect or module exit is doing, or has done
    usbhid,    \* struct usbhid_device, its URBs and its buffer: "none", "struct", "started"
    queued,    \* urbin is with the controller
    running,   \* urbin has been given back: hid_irq_in runs
    killers,   \* who waits in usb_kill_urb, which rejects submissions meanwhile
    user,      \* per user: "closed", "opens", "open", "closes"
    pm,        \* the interface's usage count, less what it was before
    shared,    \* history: it has had two users at once
    opens

vars == <<plugged, bound, usbhid, queued, running, killers, user, pm, shared, opens>>

HasUser == \E u \in Users : user[u] # "closed"

\* usb_submit_urb: an error when the URB is active, being killed, or the device
\* gone; the driver ignores it.
Submit ==
    queued' = (queued \/ (killers = {} /\ plugged))

\* usb_kill_urb: who kills it rejects submissions, unlinks the URB, which gives
\* it back to the handler, and waits for the handler.
Kill(k) ==
    /\ k \notin killers /\ killers' = killers \cup {k}
    /\ queued' = FALSE /\ running' = (running \/ queued)

Killed(k) ==
    /\ k \in killers /\ ~running /\ killers' = killers \ {k}

(***************************************************************************)
(* probe, disconnect, and what the HID core calls meanwhile                *)
(***************************************************************************)

\* usbhid_probe: struct usbhid_device and a HID device with no driver yet.
Probe ==
    /\ plugged /\ bound = "unbound" /\ opens < MaxOpens /\ opens' = opens + 1
    /\ bound' = "bound" /\ usbhid' = "struct"
    /\ UNCHANGED <<plugged, queued, running, killers, user, pm, shared>>

\* hid_add_device, or nobody: a HID driver calls usbhid_parse and usbhid_start.
Start ==
    /\ bound = "bound" /\ usbhid = "struct"
    /\ usbhid' = "started"
    /\ UNCHANGED <<plugged, bound, queued, running, killers, user, pm, shared, opens>>

\* usbhid_disconnect: hid_destroy_device. The users are closed first.
Disconnect ==
    /\ bound = "bound" /\ ~plugged
    /\ bound' = "destroy"
    /\ UNCHANGED <<plugged, usbhid, queued, running, killers, user, pm, shared, opens>>

\* usbhid_stop, unless start was never called: the URBs are killed, then freed
\* with the buffer.
StopKill ==
    /\ bound = "destroy" /\ ~HasUser /\ usbhid = "started" /\ Kill("stop")
    /\ UNCHANGED <<plugged, bound, usbhid, user, pm, shared, opens>>

Stop ==
    /\ bound = "destroy" /\ ~HasUser
    /\ \/ usbhid = "started" /\ Killed("stop")
       \/ usbhid = "struct" /\ UNCHANGED killers
    /\ bound' = "free" /\ usbhid' = "struct"
    /\ UNCHANGED <<plugged, queued, running, user, pm, shared, opens>>

\* kfree, and probe may run again.
Free ==
    /\ bound = "free" /\ bound' = "unbound" /\ usbhid' = "none"
    /\ UNCHANGED <<plugged, queued, running, killers, user, pm, shared, opens>>

(***************************************************************************)
(* open, close and the completion handler                                  *)
(***************************************************************************)

\* A user opens its device, which exists from start to stop.
OpenCall(u) ==
    /\ user[u] = "closed" /\ bound = "bound" /\ usbhid = "started"
    /\ opens < MaxOpens /\ opens' = opens + 1
    /\ user' = [user EXCEPT ![u] = "opens"]
    /\ shared' = (shared \/ HasUser)
    /\ UNCHANGED <<plugged, bound, usbhid, queued, running, killers, pm>>

\* usbhid_open: nobody counts the users, nor takes the reference that is put.
Open(u) ==
    /\ user[u] = "opens"
    /\ Submit /\ pm' = pm - 1
    /\ user' = [user EXCEPT ![u] = "open"]
    /\ UNCHANGED <<plugged, bound, usbhid, running, killers, shared, opens>>

CloseCall(u) ==
    /\ user[u] = "open"
    /\ user' = [user EXCEPT ![u] = "closes"]
    /\ UNCHANGED <<plugged, bound, usbhid, queued, running, killers, pm, shared, opens>>

\* A variant: usb_unlink_urb, which does not wait.
CloseUnlink(u) ==
    /\ user[u] = "closes"
    /\ queued' = FALSE /\ running' = (running \/ queued)
    /\ user' = [user EXCEPT ![u] = "closed"]
    /\ UNCHANGED <<plugged, bound, usbhid, killers, pm, shared, opens>>

\* usbhid_close
Close(u) ==
    /\ user[u] = "closes"
    /\ \/ Kill(u) /\ UNCHANGED user
       \/ /\ Killed(u) /\ user' = [user EXCEPT ![u] = "closed"]
          /\ UNCHANGED <<queued, running>>
    /\ UNCHANGED <<plugged, bound, usbhid, pm, shared, opens>>

\* The mouse moves, or the transfer fails: the controller gives the URB back.
Complete ==
    /\ queued /\ ~running /\ queued' = FALSE /\ running' = TRUE
    /\ UNCHANGED <<plugged, bound, usbhid, killers, user, pm, shared, opens>>

\* hid_irq_in hands on what there is, also after an error, and submits again.
IrqIn ==
    /\ running /\ running' = FALSE /\ Submit
    /\ UNCHANGED <<plugged, bound, usbhid, killers, user, pm, shared, opens>>

\* The cable is pulled out, or the module removed: the USB core disconnects.
Unplug ==
    /\ plugged /\ plugged' = FALSE
    /\ UNCHANGED <<bound, usbhid, queued, running, killers, user, pm, shared, opens>>

Plug ==
    /\ ~plugged /\ bound = "unbound" /\ plugged' = TRUE
    /\ UNCHANGED <<bound, usbhid, queued, running, killers, user, pm, shared, opens>>

(***************************************************************************)
(* Specification                                                           *)
(***************************************************************************)

Init ==
    /\ plugged = TRUE /\ bound = "unbound" /\ usbhid = "none"
    /\ queued = FALSE /\ running = FALSE /\ killers = {}
    /\ user = [u \in Users |-> "closed"]
    /\ pm = 0 /\ shared = FALSE /\ opens = 0

Next ==
    \/ Probe \/ Start \/ Disconnect \/ StopKill \/ Stop \/ Free \/ Complete \/ IrqIn \/ Unplug \/ Plug
    \/ \E u \in Users : OpenCall(u) \/ Open(u) \/ CloseCall(u) \/ Close(u)

Spec == Init /\ [][Next]_vars

(***************************************************************************)
(* Properties                                                              *)
(***************************************************************************)

\* When the last user has closed the device, and when it is stopped, the URB
\* is not with the controller and no handler runs: none finds the URB, the
\* buffer or the HID device freed. The handler that submits the URB again
\* races with usb_kill_urb in usbhid_close and usbhid_stop.
QuietWhenClosed ==
    /\ ~HasUser /\ killers = {} => ~queued /\ ~running
    /\ usbhid # "started" => ~queued /\ ~running

\* A device that never had two users at once and is open has its URB with the
\* controller or in the handler: reports go on, whatever reopened it before.
OnlyUserIsServed ==
    ~shared /\ plugged /\ (\E u \in Users : user[u] = "open") => queued \/ running

(***************************************************************************)
(* The inductive invariant                                                 *)
(***************************************************************************)

TypeOK ==
    /\ plugged \in BOOLEAN /\ queued \in BOOLEAN /\ running \in BOOLEAN /\ shared \in BOOLEAN
    /\ bound \in {"unbound", "bound", "destroy", "free"}
    /\ usbhid \in {"none", "struct", "started"}
    /\ killers \subseteq Users \cup {"stop"}
    /\ user \in [Users -> {"closed", "opens", "open", "closes"}]

\* Users come after start and go before stop; who kills the URB is one of them
\* that closes, or stop.
UsersInv ==
    /\ usbhid = "started" => bound \in {"bound", "destroy"}
    /\ HasUser => usbhid = "started"
    /\ \A u \in Users : u \in killers => user[u] = "closes"
    /\ "stop" \in killers => bound = "destroy" /\ usbhid = "started" /\ ~HasUser
    /\ ~shared => \A u, v \in Users : user[u] # "closed" /\ user[v] # "closed" => u = v

\* A URB that is being killed is not with the controller; without users and
\* killers nothing brings it there.
UrbInv ==
    /\ killers # {} => ~queued
    /\ ~HasUser /\ killers = {} => ~queued /\ ~running
    /\ OnlyUserIsServed

IInv == TypeOK /\ UsersInv /\ UrbInv

=============================================================================
