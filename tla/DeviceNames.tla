----------------------------- MODULE DeviceNames -----------------------------
(***************************************************************************)
(* validateDeviceName (pkg/driver/controller.go): the path under /dev/disk/*)
(* by-id where a node finds a volume, put together from the device name    *)
(* the Machine gave the volume and the volume's access handle, and cut to  *)
(* what virtio keeps of a serial. Names are sequences of characters.       *)
(***************************************************************************)
EXTENDS Naturals, Sequences

CONSTANTS
  Char,      \* characters of device names and handles
  Dash,      \* the character between the two
  Name,      \* Name[d]: the device name, spelled out
  Handle,    \* Handle[v]: Status.Access.Handle of volume v, spelled out
  MaxName    \* characters that are kept, 20 in the code

\* Device names are distinct, have no dash and are not cut off, and handles
\* differ in a character that is not cut off.
ASSUME NamesAssumption ==
  /\ Name \in [DOMAIN Name -> Seq(Char)]
  /\ Handle \in [DOMAIN Handle -> Seq(Char)]
  /\ MaxName \in Nat
  /\ \A d \in DOMAIN Name : \A i \in 1..Len(Name[d]) : Name[d][i] # Dash
  /\ \A d \in DOMAIN Name : Len(Name[d]) < MaxName
  /\ \A d, e \in DOMAIN Name : Name[d] = Name[e] => d = e
  /\ \A u, v \in DOMAIN Handle : u # v =>
       \E k \in 1..Len(Handle[u]) :
         /\ k <= Len(Handle[v])
         /\ Handle[u][k] # Handle[v][k]
         /\ \A d \in DOMAIN Name : Len(Name[d]) + 1 + k <= MaxName

Cut(s) == IF Len(s) > MaxName THEN SubSeq(s, 1, MaxName) ELSE s

\* Faulty: the handle is left out.
FaultyDevicePath(d, v) == Cut(Name[d])

DevicePath(d, v) == Cut(Name[d] \o <<Dash>> \o Handle[v])

=============================================================================
