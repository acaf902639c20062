---------------------------- MODULE DbusProxies ----------------------------
(***************************************************************************)
(* What the native proxies make of a reply of BlueZ: the structs of        *)
(* bluez_media_types.h, filled from a dictionary of variants.              *)
(* (native/src/media_*_proxy.cpp, media_utils.cpp, media_client.cpp)       *)
(*                                                                         *)
(* A variant is [t |-> its D-Bus signature, v |-> its value]; a dictionary *)
(* of properties is a function of their names, and an a{sv} value that     *)
(* only is listed (Track, Metadata) the sequence of its entries in the     *)
(* order of a std::map.                                                    *)
(***************************************************************************)
EXTENDS WireCodec

Variant(t, v) == [t |-> t, v |-> v]

\* The texts that stand for others, <<1>> to <<14>>, are texts.
ASSUME StandInAssumption == ByteBase > 14

\* Texts of the conversions below, and a text without meaning here.
TrueText == <<11>>
FalseText == <<12>>
Comma == <<13>>
Dump == <<14>>

\* std::to_string of a number that is not negative.
Decimal(n) ==
    LET digits[k \in Nat] == (IF k < 10 THEN <<>> ELSE digits[k \div 10])
                                 \o <<k % 10>>
    IN  digits[n]

\* variant_to_string of an "as": no comma while nothing has been joined.
Joined(values) ==
    FoldLeft(LAMBDA text, value :
                (IF text = <<>> THEN text ELSE text \o Comma) \o value, <<>>, values)

\* variant_to_string
VariantToString(x) ==
    CASE x.t \in {"s", "o"} -> x.v
      [] x.t = "b" -> IF x.v THEN TrueText ELSE FalseText
      [] x.t \in {"y", "q", "u", "t", "n", "i", "x"} -> Decimal(x.v)
      [] x.t = "as" -> Joined(x.v)
      [] OTHER -> Dump

\* track_to_properties
TrackToProperties(entries) ==
    [i \in DOMAIN entries |->
        [key |-> entries[i].key, value |-> VariantToString(entries[i].value)]]

\* T{}
Zero == [s |-> <<>>, o |-> <<>>, b |-> FALSE, y |-> 0, q |-> 0, u |-> 0,
         ay |-> <<>>, entries |-> <<>>]

\* media_property<T>: the value, or T{} when it is missing or of another type.
MediaProperty(props, name, t) ==
    IF name \in DOMAIN props /\ props[name].t = t THEN props[name].v ELSE Zero[t]

\* MediaPlayerProxy::encode_properties
PlayerProps(path, props) ==
    LET P(name, t) == MediaProperty(props, name, t) IN
    [objectPath |-> path,
     equalizer |-> P("Equalizer", "s"), repeat |-> P("Repeat", "s"),
     shuffle |-> P("Shuffle", "s"), scan |-> P("Scan", "s"),
     status |-> P("Status", "s"), position |-> P("Position", "u"),
     track |-> TrackToProperties(P("Track", "entries")),
     device |-> P("Device", "o"), name |-> P("Name", "s"),
     type |-> P("Type", "s"), subtype |-> P("Subtype", "s"),
     browsable |-> P("Browsable", "b"), searchable |-> P("Searchable", "b"),
     playlist |-> P("Playlist", "o"), obexPort |-> P("ObexPort", "q")]

\* MediaControlProxy::encode_properties
ControlProps(path, props) ==
    [objectPath |-> path,
     connected |-> MediaProperty(props, "Connected", "b"),
     player |-> MediaProperty(props, "Player", "o")]

\* MediaTransportProxy::encode_properties
TransportProps(path, props) ==
    LET P(name, t) == MediaProperty(props, name, t) IN
    [objectPath |-> path,
     device |-> P("Device", "o"), uuid |-> P("UUID", "s"),
     codec |-> P("Codec", "y"), configuration |-> P("Configuration", "ay"),
     state |-> P("State", "s"), delay |-> P("Delay", "q"),
     volume |-> P("Volume", "q"), endpoint |-> P("Endpoint", "o")]

\* MediaBrowserProxy::encode_folder_properties
FolderProps(path, props) ==
    [objectPath |-> path,
     numberOfItems |-> MediaProperty(props, "NumberOfItems", "u"),
     name |-> MediaProperty(props, "Name", "s")]

\* MediaBrowserProxy::item_from_properties: texts of whatever type.
ItemProps(path, props) ==
    LET Text(name) == IF name \in DOMAIN props THEN VariantToString(props[name])
                                               ELSE <<>> IN
    [objectPath |-> path,
     player |-> Text("Player"), name |-> Text("Name"), type |-> Text("Type"),
     folderType |-> Text("FolderType"),
     playable |-> MediaProperty(props, "Playable", "b"),
     metadata |-> TrackToProperties(MediaProperty(props, "Metadata", "entries"))]

\* MediaBrowserProxy::folder_search: the path of the folder with the results.
FolderSearch(found) == FolderProps(found, <<>>)

\* MediaBrowserProxy::folder_list_items: of entries [path, props] in the
\* order of a std::map.
FolderItems(path, entries) ==
    [objectPath |-> path,
     items |-> [i \in DOMAIN entries |->
                    ItemProps(entries[i].path, entries[i].props)]]

\* MediaTransportProxy::acquire, try_acquire.
AcquireResult(path, fd, mtus) ==
    [transportPath |-> path, fd |-> fd, readMtu |-> mtus.read,
     writeMtu |-> mtus.write]

\* MediaClient::get_managed_objects: of objects [path, interfaces] in the
\* order of a std::map, the paths with each interface.
ManagedObjects(objects) ==
    LET With(interface) ==
            LET has == SelectSeq(objects, LAMBDA o : interface \in o.interfaces)
            IN  [i \in DOMAIN has |-> has[i].path]
    IN  [media |-> With("Media1"), players |-> With("MediaPlayer1"),
         controls |-> With("MediaControl1"), transports |-> With("MediaTransport1"),
         folders |-> With("MediaFolder1"), items |-> With("MediaItem1")]

\* MediaObjectManager::post_removed
ObjectRemoved(path, interface) ==
    [objectPath |-> path, interfaceName |-> interface]
=============================================================================
