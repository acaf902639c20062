---------------------------- MODULE MCMediaCalls ----------------------------
(* Every operation, with the arguments it may get and what BlueZ may have. *)
EXTENDS MediaCalls

Path == <<1, 2>>
Word == <<3>>
\* A text whose length takes two bytes.
Long == [i \in 1..17 |-> i % 16]

Request(op, path, argument, timeout, content) ==
    [op |-> op, path |-> path, argument |-> argument, timeout |-> timeout,
     content |-> content]

Entry(key, value) == [key |-> key, value |-> value]

\* Metadata of each type, among it an artist list that begins with nothing.
Metadata ==
    <<Entry(<<1>>, Variant("s", Word)), Entry(<<2>>, Variant("o", Path)),
      Entry(<<3>>, Variant("b", TRUE)), Entry(<<4>>, Variant("u", 4095)),
      Entry(<<5>>, Variant("as", <<Word, Path>>)),
      Entry(<<6>>, Variant("as", <<<<>>, Word>>)), Entry(<<7>>, Variant("a{sv}", 0))>>

\* The values of a type at the edges of its width.
Edges == [s |-> <<<<>>, Long>>, o |-> <<Long>>, b |-> <<FALSE>>,
          y |-> <<0, ByteBase - 1>>, q |-> <<0, ByteBase, ByteBase ^ 2 - 1>>,
          u |-> <<0, ByteBase, ByteBase ^ 4 - 1>>, ay |-> <<<<>>, Long>>,
          entries |-> <<<<>>, Metadata>>]

\* The elements of a set in some order.
Listed(S) == FoldSet(LAMBDA x, list : Append(list, x), <<>>, S)
Each(Make(_), S) == LET list == Listed(S) IN [i \in DOMAIN list |-> Make(list[i])]

\* A full dictionary, and those that differ from it in one property: missing,
\* of another type, or at an edge.
Around(full) ==
    LET Without(x) == [n \in DOMAIN full \ {x} |-> full[n]]
        Retyped(x) == [full EXCEPT ![x] = Variant("i", 10)]
        AtEdges(x) == LET e == Edges[full[x].t]
                      IN  [i \in DOMAIN e |-> [full EXCEPT ![x].v = e[i]]]
    IN  <<full>> \o Each(Without, DOMAIN full) \o Each(Retyped, DOMAIN full)
          \o FlattenSeq(Each(AtEdges, DOMAIN full))

\* Values that differ from field to field.
S(n) == Variant("s", <<n, n>>)
O(n) == Variant("o", <<15, n>>)

Player == [Equalizer |-> S(1), Repeat |-> S(2), Shuffle |-> S(3), Scan |-> S(4),
           Status |-> S(5), Position |-> Variant("u", 4096),
           Track |-> Variant("entries", <<Entry(<<1>>, S(6))>>),
           Device |-> O(7), Name |-> S(8), Type |-> S(9), Subtype |-> S(10),
           Browsable |-> Variant("b", TRUE), Searchable |-> Variant("b", TRUE),
           Playlist |-> O(11), ObexPort |-> Variant("q", 17)]
Control == [Connected |-> Variant("b", TRUE), Player |-> O(1)]
Transport == [Device |-> O(1), UUID |-> S(2), Codec |-> Variant("y", 3),
              Configuration |-> Variant("ay", <<4, 5>>), State |-> S(6),
              Delay |-> Variant("q", 18), Volume |-> Variant("q", 33),
              Endpoint |-> O(7)]
Folder == [NumberOfItems |-> Variant("u", 257), Name |-> S(1)]
Item == [Player |-> O(1), Name |-> S(2), Type |-> S(3), FolderType |-> S(4),
         Playable |-> Variant("b", TRUE),
         Metadata |-> Variant("entries", <<Entry(<<5>>, S(6))>>)]

Full == [PlayerProps |-> Player, ControlProps |-> Control,
         TransportProps |-> Transport, FolderProps |-> Folder, ItemProps |-> Item]

Found(path, props) == [path |-> path, props |-> props]
Object(path, interfaces) == [path |-> path, interfaces |-> interfaces]

Contents(op) ==
    CASE op = "FOLDER_SEARCH" -> <<Path, Long>>
      [] op = "FOLDER_LIST_ITEMS" ->
            <<<<>>, <<Found(Path, Item)>>,
              <<Found(Path, Item), Found(Long, [Item EXCEPT !.Playable.v = FALSE])>>>>
      [] op = "GET_MANAGED_OBJECTS" ->
            <<<<>>,
              <<Object(<<1>>, {"Media1"}),
                Object(<<2>>, {"MediaControl1", "MediaPlayer1"}),
                Object(<<3>>, {"MediaPlayer1", "MediaFolder1"}),
                Object(<<4>>, {"MediaTransport1"}), Object(<<5>>, {"MediaItem1"}),
                Object(<<6>>, {"Device1"})>>>>
      [] op \in Acquires -> <<[read |-> 17, write |-> 255]>>
      [] op \in DOMAIN Struct -> Around(Full[Struct[op]])
      [] op = "MPRIS_GET_COVER_ART" -> <<<<3, 4, 5>>>>
      [] OTHER -> <<<<>>>>

\* A request for each of BlueZ's contents.
Over(op, path, argument, contents) ==
    [i \in DOMAIN contents |-> Request(op, path, argument, 1, contents[i])]

Getters == DOMAIN Struct \ (Acquires \cup {"GET_MANAGED_OBJECTS"})
Plain == PlayerCommands \cup ControlCommands \cup TransportCommands
           \cup (BrowserCommands \ {"FOLDER_CHANGE_FOLDER"})

\* Each operation on an object, with and without its path.
OnObjects ==
    LET Paths(op) == LET one == <<Contents(op)[1]>> IN
                Over(op, None, None, one) \o Over(op, <<>>, None, one)
                  \o Over(op, Path, None, one)
    IN  FlattenSeq(Each(Paths, Plain \cup Getters \cup Acquires \cup {"UNKNOWN"}))

\* Those with an argument, with and without it.
WithArguments ==
    Each(LAMBDA r : r,
         {Request(op, path, argument, timeout, <<>>) :
            op \in PlayerSettings \cup CoverFetches \cup Registrations
                     \cup {"FOLDER_CHANGE_FOLDER"},
            path \in {None, Path}, argument \in {None, Word}, timeout \in 0..1})

\* Each getter with everything BlueZ may have.
OfContents ==
    LET All(op) == Over(op, Path, Word, Contents(op))
    IN  FlattenSeq(Each(All, Getters \cup {"GET_MANAGED_OBJECTS", "MPRIS_GET_COVER_ART"}))

Events ==
    LET All(struct) == Over("EVENT", Path, struct, Around(Full[struct]))
    IN  FlattenSeq(Each(All, DOMAIN Full))
          \o <<Request("EVENT", Path, "ObjectRemoved", 1, Word)>>

MCRequests == OnObjects \o WithArguments \o OfContents \o Events
=============================================================================
