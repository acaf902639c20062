------------------------- MODULE MCCoverArtSessions -------------------------
(* Two players, of one device or of devices on one or two adapters. *)
EXTENDS CoverArtSessions, TLC

CONSTANTS p1, p2, dev1, dev2, hci0, hci1

OneDevice  == (p1 :> dev1) @@ (p2 :> dev1)
TwoDevices == (p1 :> dev1) @@ (p2 :> dev2)
MCSameAdapter == (dev1 :> hci0) @@ (dev2 :> hci0)
MCTwoAdapters == (dev1 :> hci0) @@ (dev2 :> hci1)

\* Players of one device: a restart of obexd with players that ask for different
\* ports and change them; with a fetch; with an error (a registration that fails
\* or times out, a session that is not removed); errors with ports, and with a
\* fetch.
Shared == [device |-> OneDevice, obexPorts |-> {1, 2}, adds |-> 1, ports |-> 1,
           starts |-> 2, drops |-> 0, errors |-> 0, gets |-> 0]
SharedFetch == [Shared EXCEPT !.obexPorts = {1}, !.ports = 0, !.gets = 1]
SharedErrors == [SharedFetch EXCEPT !.gets = 0, !.errors = 1]
ErrorPorts == [Shared EXCEPT !.ports = 0, !.starts = 1, !.errors = 1]
ErrorFetch == [SharedFetch EXCEPT !.starts = 1, !.errors = 1]

\* Players of their own devices: a restart, a dropped session and an error; a
\* fetch with an error.
Apart == [device |-> TwoDevices, obexPorts |-> {1}, adds |-> 1, ports |-> 0,
          starts |-> 2, drops |-> 1, errors |-> 1, gets |-> 0]
ApartFetch == [Apart EXCEPT !.starts = 1, !.drops = 0, !.gets = 1]

MCLayouts == {Shared, SharedFetch, SharedErrors, ErrorPorts, ErrorFetch, Apart,
              ApartFetch}

\* The least that shows each disagreement.
MCRestart == {[Shared EXCEPT !.obexPorts = {1}, !.ports = 0]}
MCAdapters == {[Apart EXCEPT !.starts = 1, !.drops = 0, !.errors = 0]}

PathSymmetry == Permutations(Paths)

=============================================================================
