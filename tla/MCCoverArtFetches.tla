------------------------- MODULE MCCoverArtFetches -------------------------
(* A cover-art service that serves two OBEX requests, or an MPRIS one. *)
EXTENDS CoverArtTransfers, MprisArt

CONSTANTS fileA, fileB

Publish(p, t, f) == [process |-> p, track |-> t, file |-> f]
Hold(i, n) == [of |-> i, size |-> n]

MCPublished ==
    {Publish("mpris-proxy", Item, fileA),
     Publish("mpris-proxy", Item, fileB),
     Publish("mpris-proxy", Item, Null),
     Publish("mpris-proxy", Other, fileA),
     Publish("ended", Item, fileA),
     Publish("hidden", Item, fileA)}

MCContents ==
    {Hold(Item, 0), Hold(Item, 1), Hold(Item, 2), Hold(Item, 3), Hold(Other, 2)}

\* The OBEX requests, with the MPRIS request answered before.
ObexInit ==
    /\ Init
    /\ reader = [at |-> "list", left |-> {}, name |-> Null, file |-> Null,
                 size |-> 0, got |-> 0, of |-> {}]
    /\ answer = "timeout" /\ late = TRUE
    /\ players = [n \in Names |-> Publish("ended", Item, fileA)]
    /\ files = [f \in Files |-> Hold(Item, 2)]
    /\ changes = 0 /\ refused = {} /\ steady = {} /\ touched = FALSE

\* The MPRIS request, with the OBEX requests answered before.  One of the files
\* may hold anything, the other holds an image.
ArtInit ==
    /\ MprisInit
    /\ files[fileB].size = 2
    /\ call = None /\ expired = FALSE
    /\ result = [f \in Fetches |-> "timeout"]
    /\ transfers = [x \in Transfers |-> None]
    /\ file = None /\ stray = {} /\ lost = FALSE /\ faults = 0

MCNext ==
    \/ Next /\ UNCHANGED mpris
    \/ MprisNext /\ UNCHANGED vars

MCSpec ==
    /\ ObexInit \/ ArtInit
    /\ [][MCNext]_<<vars, mpris>>
    /\ Fairness /\ MprisFairness

\* Every request is answered, OBEX or MPRIS, also when obexd never answers,
\* never finishes a transfer or forgets it, and whatever players do.
EveryRequestAnswered == <>(AllAnswered /\ answer # Null)

=============================================================================
