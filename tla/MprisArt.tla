------------------------------ MODULE MprisArt ------------------------------
(***************************************************************************)
(* Reading the artwork that BlueZ's mpris-proxy has published for an item: *)
(* CoverArtService::get_mpris_cover_art, which asks every MPRIS name on    *)
(* the bus while players come and go, change their metadata, and replace   *)
(* or rewrite their files.  (native/src/cover_art_service.cpp)             *)
(***************************************************************************)
EXTENDS Naturals

CONSTANTS
    Names,       \* bus names with the MPRIS prefix
    Item,        \* the item whose artwork is asked for
    Other,       \* another item
    Files,       \* inodes of artwork files
    Published,   \* what may be seen of a player: owner, track, file
    Contents,    \* what a file may hold
    Limit,       \* the largest size that is read, in pieces
    MaxChanges,  \* bound on changes of players and files
    Null         \* no name, no file, no answer yet

\* A process that is not mpris-proxy, or has ended, or may not be looked at; an
\* artUrl that is no local file has no file here.
Processes == {"mpris-proxy", "other", "ended", "hidden"}
Player == [process : Processes, track : {Item, Other}, file : Files \cup {Null}]

\* A file holds the image of one item up to its size.  The size Limit + 1 stands
\* for every file that is refused: too large, a symbolic link, not regular.
Artwork == [of : {Item, Other}, size : 0..Limit + 1]

Answers == {"bytes", "notReady", "badFile", "unverified", "timeout", "error"}

ASSUME MprisAssumption ==
    /\ Limit \in Nat /\ MaxChanges \in Nat
    /\ Published \subseteq Player /\ Contents \subseteq Artwork
    /\ Null \notin Names \cup Files \cup Answers

VARIABLES
    reader,   \* the request
    answer,   \* how it ended, Null before
    late,     \* its deadline has passed
    players,  \* who owns each name and what it publishes
    files,    \* the artwork files
    changes,
    refused,  \* history: names that a call failed for (Null: for ListNames)
    steady,   \* history: players that have not changed since the start
    touched   \* history: the file being read was rewritten

bluez == <<players, files, changes, steady, touched>>
mpris == <<reader, answer, late, bluez, refused>>

Reader == [at : {"list", "next", "metadata", "open", "read"},
           left : SUBSET Names, name : Names \cup {Null},
           file : Files \cup {Null}, size : 0..Limit, got : 0..Limit,
           of : SUBSET {Item, Other}]

MprisTypeOK ==
    /\ reader \in Reader
    /\ answer \in Answers \cup {Null}
    /\ late \in BOOLEAN
    /\ players \in [Names -> Published]
    /\ files \in [Files -> Contents]
    /\ changes \in 0..MaxChanges /\ refused \subseteq Names \cup {Null}
    /\ steady \subseteq Names /\ touched \in BOOLEAN

MprisInit ==
    /\ reader = [at |-> "list", left |-> {}, name |-> Null, file |-> Null,
                 size |-> 0, got |-> 0, of |-> {}]
    /\ answer = Null /\ late = FALSE
    /\ players \in [Names -> Published]
    /\ files \in [Files -> Contents]
    /\ changes = 0 /\ refused = {}
    /\ steady = Names /\ touched = FALSE

----------------------------------------------------------------------------
(* The request                                                             *)

ReaderAt(place) == answer = Null /\ reader.at = place

Answer(outcome) == answer' = outcome /\ UNCHANGED reader

\* The loop goes on to the next name with what r says.
Continue(r) == reader' = [r EXCEPT !.at = "next"] /\ UNCHANGED answer

\* Fault: the handler of D-Bus errors is outside the loop.
SkipName_Ends(r) == Answer("error")

\* catch (const sdbus::Error&): the name is passed over.
SkipName(r) == Continue(r)

\* A D-Bus call for name n with the time that remains: no time is left, or the
\* call fails, at once or by its timeout.
Ask(n, onError) ==
    \/ late /\ Answer("timeout") /\ UNCHANGED <<late, refused>>
    \/ ~late /\ onError /\ refused' = refused \cup {n} /\ UNCHANGED late
    \/ ~late /\ late' = TRUE /\ onError /\ UNCHANGED refused

\* ListNames; the names of processes that have ended are not listed.
List ==
    /\ ReaderAt("list")
    /\ \/ /\ ~late
          /\ reader' = [reader EXCEPT !.at = "next", !.left =
                          {n \in Names : players[n].process # "ended"}]
          /\ UNCHANGED <<answer, late, refused>>
       \/ Ask(Null, Answer("error"))
    /\ UNCHANGED bluez

\* is_mpris_proxy_process of the next name: GetConnectionUnixProcessID, then
\* /proc/<pid>/comm, which may be gone by then.
Inspect(n) ==
    LET process == players[n].process
        taken == [reader EXCEPT !.left = @ \ {n}, !.name = n]
    IN /\ ReaderAt("next") /\ n \in reader.left
       /\ \/ /\ ~late
             /\ \/ /\ process \in {"mpris-proxy", "other", "ended"}
                   /\ IF process = "mpris-proxy"
                      THEN reader' = [taken EXCEPT !.at = "metadata"]
                           /\ UNCHANGED answer
                      ELSE Continue(taken)
                \/ process = "hidden" /\ Answer("unverified")
             /\ UNCHANGED <<late, refused>>
          \/ Ask(n, SkipName(taken))
       /\ UNCHANGED bluez

\* No name is left.
Exhausted ==
    /\ ReaderAt("next") /\ reader.left = {}
    /\ Answer("notReady")
    /\ UNCHANGED <<late, refused, bluez>>

\* Get Metadata, the comparison of mpris:trackid and the parsing of
\* mpris:artUrl.
ReadMetadata ==
    LET n == reader.name
        p == players[n]
    IN /\ ReaderAt("metadata")
       /\ \/ /\ ~late /\ p.process # "ended"
             /\ \/ p.track # Item /\ Continue(reader)
                \/ /\ p.track = Item /\ p.file = Null
                   /\ Continue(reader) \/ Answer("badFile")
                \/ /\ p.track = Item /\ p.file # Null
                   /\ reader' = [reader EXCEPT !.at = "open", !.file = p.file]
                   /\ UNCHANGED answer
             /\ UNCHANGED <<late, refused>>
          \/ Ask(n, SkipName(reader))
       /\ UNCHANGED bluez

\* Fault: only an empty file is refused.
OpenFile_NoLimit ==
    LET file == files[reader.file] IN
    /\ ReaderAt("open")
    /\ IF file.size > 0
       THEN /\ reader' = [reader EXCEPT !.at = "read", !.size = file.size]
            /\ UNCHANGED answer
       ELSE Answer("badFile")
    /\ touched' = FALSE
    /\ UNCHANGED <<late, refused, players, files, changes, steady>>

\* open and fstat, after which the descriptor stands for the file.
OpenFile ==
    LET file == files[reader.file] IN
    /\ ReaderAt("open")
    /\ IF file.size \in 1..Limit
       THEN /\ reader' = [reader EXCEPT !.at = "read", !.size = file.size]
            /\ UNCHANGED answer
       ELSE Answer("badFile")
    /\ touched' = FALSE
    /\ UNCHANGED <<late, refused, players, files, changes, steady>>

\* Fault: a short read ends the loop, with the rest left as it was.
ReadFile_Short ==
    LET file == files[reader.file] IN
    /\ ReaderAt("read") /\ reader.got < reader.size
    /\ IF file.size > reader.got
       THEN /\ reader' = [reader EXCEPT !.got = @ + 1, !.of = @ \cup {file.of}]
            /\ UNCHANGED answer
       ELSE Answer("bytes")
    /\ UNCHANGED <<late, refused, bluez>>

\* read(2): another piece of what the file holds now, or its end.
ReadFile ==
    LET file == files[reader.file] IN
    /\ ReaderAt("read") /\ reader.got < reader.size
    /\ IF file.size > reader.got
       THEN /\ reader' = [reader EXCEPT !.got = @ + 1, !.of = @ \cup {file.of}]
            /\ UNCHANGED answer
       ELSE Answer("badFile")
    /\ UNCHANGED <<late, refused, bluez>>

Deliver ==
    /\ ReaderAt("read") /\ reader.got = reader.size
    /\ Answer("bytes")
    /\ UNCHANGED <<late, refused, bluez>>

PassDeadline ==
    /\ answer = Null /\ ~late
    /\ late' = TRUE
    /\ UNCHANGED <<reader, answer, bluez, refused>>

----------------------------------------------------------------------------
(* Players and their files                                                 *)

Change == answer = Null /\ changes < MaxChanges /\ changes' = changes + 1

\* A player comes, goes, or publishes something else.  Another file is another
\* inode, also when it takes the path of the old one.
ChangePlayer(n, p) ==
    /\ Change
    /\ players' = [players EXCEPT ![n] = p]
    /\ steady' = steady \ {n}
    /\ UNCHANGED <<reader, answer, late, files, refused, touched>>

\* A file is written in place.
RewriteFile(f, g) ==
    /\ Change
    /\ files' = [files EXCEPT ![f] = g]
    /\ touched' = (touched \/ reader.file = f)
    /\ steady' = {n \in steady : players[n].file # f}
    /\ UNCHANGED <<reader, answer, late, players, refused>>

MprisRequest ==
    \/ List \/ Exhausted \/ ReadMetadata \/ OpenFile \/ ReadFile \/ Deliver
    \/ \E n \in Names : Inspect(n)

MprisFairness == WF_mpris(MprisRequest) /\ WF_mpris(PassDeadline)

MprisNext ==
    \/ MprisRequest \/ PassDeadline
    \/ \E n \in Names, p \in Published : ChangePlayer(n, p)
    \/ \E f \in Files, g \in Contents : RewriteFile(f, g)

MprisSpec == MprisInit /\ [][MprisNext]_mpris /\ MprisFairness

----------------------------------------------------------------------------
(* Properties                                                              *)

\* Bytes are what one descriptor gave: as many as its file had when it was
\* opened, never more than the limit, and the whole of that file, of one item,
\* unless it was rewritten in place meanwhile; a file replaced at its path does
\* no harm (read_cover_art_file).
BytesAreOneFile ==
    answer = "bytes" =>
        /\ reader.got = reader.size /\ reader.size \in 1..Limit
        /\ ~touched => /\ reader.of = {files[reader.file].of}
                       /\ reader.got = files[reader.file].size

\* A D-Bus error of one name ends nothing but that name (the handler inside the
\* loop over the names): the search says that nothing is ready, or fails by such
\* an error, only when every player that offered the artwork throughout refused
\* its own call.  Another name does end the search when its process cannot be
\* looked at ("unverified") or its file is not good ("badFile"): these are no
\* D-Bus errors, and the handler does not catch them.
OfferIsFound ==
    answer \in {"notReady", "error"} /\ reader.at # "list" /\ ~late =>
        \A n \in steady \ refused : ~(/\ players[n].process = "mpris-proxy"
                                      /\ players[n].track = Item
                                      /\ players[n].file # Null)

=============================================================================
