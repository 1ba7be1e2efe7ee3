--------------------------- MODULE SectorService ---------------------------
(***************************************************************************)
(* What the guest's operating system expects of its monitor, controller    *)
(* and drives together: a request to read or write one sector of one drive *)
(* takes effect at one moment between its submission and its completion,   *)
(* on that sector alone, whatever diskette is in the drive at that moment. *)
(***************************************************************************)
EXTENDS Naturals

CONSTANTS Drive, Position, Sector,
          Reads, Writes,   \* the requests: records with a drive and a position
          Payload          \* what a write writes

VARIABLES media,      \* the diskettes in the drives
          request,    \* the request being served, or NoRequest
          performed,  \* whether it has taken effect
          value,      \* what a read that has taken effect will return
          answer,     \* what the last request returned, while none is served
          swapped     \* diskettes changed so far: tells a change from a write

vars == <<media, request, performed, value, answer, swapped>>

NoRequest == <<>>
NoValue == <<>>

Init ==
  /\ media \in [Drive -> [Position -> Sector]]
  /\ request = NoRequest
  /\ performed = FALSE
  /\ value = NoValue
  /\ answer = NoValue
  /\ swapped = 0

Submit(r) ==
  /\ request = NoRequest
  /\ request' = r
  /\ answer' = NoValue
  /\ UNCHANGED <<media, performed, value, swapped>>

PerformRead ==
  /\ request \in Reads /\ ~performed
  /\ performed' = TRUE
  /\ value' = media[request.drive][request.position]
  /\ UNCHANGED <<media, request, answer, swapped>>

PerformWrite ==
  /\ request \in Writes /\ ~performed
  /\ performed' = TRUE
  /\ media' = [media EXCEPT ![request.drive][request.position] = Payload]
  /\ UNCHANGED <<request, value, answer, swapped>>

Complete ==
  /\ request # NoRequest /\ performed
  /\ request' = NoRequest
  /\ performed' = FALSE
  /\ answer' = value
  /\ value' = NoValue
  /\ UNCHANGED <<media, swapped>>

\* The host changes the diskette of one drive at any time.
Swap(d) ==
  /\ swapped' = swapped + 1
  /\ media' \in [Drive -> [Position -> Sector]]
  /\ \A other \in Drive \ {d} : media'[other] = media[other]
  /\ UNCHANGED <<request, performed, value, answer>>

Next ==
  \/ \E r \in Reads \cup Writes : Submit(r)
  \/ PerformRead \/ PerformWrite \/ Complete
  \/ \E d \in Drive : Swap(d)

Spec == Init /\ [][Next]_vars
=============================================================================
