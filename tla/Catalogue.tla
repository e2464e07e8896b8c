----------------------------- MODULE Catalogue -----------------------------
(***************************************************************************)
(* How the library uses what a C decoder declares (decoder.c, instance.c,  *)
(* c_decoder_api.c): srd_c_decoder_register copies the tables of the       *)
(* descriptor, create_c_decoder_inst makes an instance of it, the host     *)
(* connects its channels with srd_inst_channel_set_all and sets options,   *)
(* and start() reads the options.                                          *)
(*                                                                         *)
(* Unlike srd_decoder_load for Python decoders, srd_c_decoder_register     *)
(* validates nothing, and the defaults the host shows are not stored in    *)
(* the instance: an option that the host does not set has the default      *)
(* written in the call that reads it.                                      *)
(*                                                                         *)
(* Definitions whose name ends in Bug are wrong variants of the one that   *)
(* follows them; the specification does not use them.                      *)
(***************************************************************************)
EXTENDS Declared, FiniteSets

CONSTANT Loadable      \* the descriptors that may be registered

\* The types of struct srd_c_decoder.
Typed(x) ==
    /\ \A i \in 1 .. 9 : x.num[i] \in Nat
    /\ x.t.channels \in Seq(STRING \X Int) /\ x.t.optional \in Seq(STRING \X Int)
    /\ x.t.options \in Seq(STRING) /\ x.defaults \in Seq(STRING \X STRING)
    /\ x.reads \in Seq([as : {"int", "dbl", "str", "bool"}, id : STRING, def : STRING])
    /\ x.t.labels \in Int /\ x.t.rows \in Seq(STRING \X Seq(Int) \X Nat)
    /\ \A ids \in {x.t.inputs, x.t.outputs, x.t.binary, x.t.tags} : ids \in Seq(STRING)

ASSUME LoadableTyped == \A x \in Loadable : Typed(x)

VARIABLES
    decoder,     \* the struct srd_decoder of pd_list, or None
    inst         \* its instance, or None

vars == <<decoder, inst>>

None == [none |-> TRUE]

\* The first n entries of a table, and what is found past its end.
Copy(table, n, wild) ==
    [i \in 1 .. n |-> IF i <= Len(table) THEN table[i] ELSE wild]
WildId      == "wild"
WildChannel == <<WildId, -1>>
WildRow     == <<WildId, <<>>, 1>>

\* Copies one class too many.
CopyRowBug(row) ==
    [id |-> row[1],
     classes |-> [i \in 1 .. row[3] + 1 |->
                    IF i <= Len(row[2]) THEN row[2][i] ELSE -1]]

\* The classes of a row, as many as its num_ann_classes says.
CopyRow(row) ==
    [id |-> row[1],
     classes |-> [i \in 1 .. row[3] |->
                    IF i <= Len(row[2]) THEN row[2][i] ELSE -1]]

\* An option: its id and, once the entry function has run, its default.
CopyOption(x, i) ==
    [id |-> Copy(x.t.options, i, WildId)[i],
     def |-> IF i <= Len(x.defaults) THEN x.defaults[i] ELSE <<"NULL", "NULL">>]

\* srd_c_decoder_register.
Registered(x) ==
    [id       |-> x.id,
     channels |-> Copy(x.t.channels, x.num[1], WildChannel),
     optional |-> Copy(x.t.optional, x.num[2], WildChannel),
     options  |-> [i \in 1 .. x.num[3] |-> CopyOption(x, i)],
     classes  |-> x.num[4],
     named    |-> x.num[4] <= x.t.labels,
     rows     |-> [i \in 1 .. x.num[5] |->
                     CopyRow(Copy(x.t.rows, x.num[5], WildRow)[i])],
     inputs   |-> Copy(x.t.inputs, x.num[6], WildId),
     outputs  |-> Copy(x.t.outputs, x.num[7], WildId),
     binary   |-> Copy(x.t.binary, x.num[8], WildId),
     tags     |-> Copy(x.t.tags, x.num[9], WildId),
     reads    |-> x.reads]

-----------------------------------------------------------------------------
(* Instances *)

AllChannels(d) == d.channels \o d.optional
NumChannels(d) == Len(AllChannels(d))
Slots(d)       == 0 .. NumChannels(d) - 1
ChannelId(d, p) == AllChannels(d)[p + 1][1]
Ids(table)     == { table[i][1] : i \in 1 .. Len(table) }

\* create_c_decoder_inst: every channel on the input of the same number, and
\* of the options only those the host passes.
NewInst(d, given) ==
    [map |-> [p \in Slots(d) |-> p], options |-> given,
     set |-> FALSE, asked |-> <<>>, outside |-> FALSE,
     started |-> FALSE, values |-> {}]

\* The first entry of that id, of the required channels if there is one:
\* g_slist_find_custom in srd_inst_channel_set_all.
Found(d, id) ==
    LET all == AllChannels(d)
    IN  all[CHOOSE i \in 1 .. Len(all) :
               all[i][1] = id /\ \A j \in 1 .. i - 1 : all[j][1] # id]

\* The maps the loop over the hash table can leave: each slot has a value of
\* one of the channels stored there, in whatever order the keys come.
Maps(d, asked) ==
    LET At(p) == { id \in DOMAIN asked : Found(d, id)[2] = p }
        Values(p) == IF At(p) = {} THEN {-1} ELSE { asked[id] : id \in At(p) }
    IN  { m \in [Slots(d) -> UNION { Values(p) : p \in Slots(d) }] :
            \A p \in Slots(d) : m[p] \in Values(p) }

\* Channels that are left out keep the input they had by default.
NewMapsBug(d, asked) ==
    LET At(p) == { id \in DOMAIN asked : Found(d, id)[2] = p }
    IN  {[p \in Slots(d) |-> IF At(p) = {} THEN p
                              ELSE asked[CHOOSE id \in At(p) : TRUE]]}

\* The same, slot by slot: TLC does not have to enumerate the functions when
\* no two channels share a slot.
NewMaps(d, asked) ==
    LET At(p) == { id \in DOMAIN asked : Found(d, id)[2] = p }
    IN  IF \A p \in Slots(d) : Cardinality(At(p)) <= 1
        THEN {[p \in Slots(d) |-> IF At(p) = {} THEN -1
                                  ELSE asked[CHOOSE id \in At(p) : TRUE]]}
        ELSE Maps(d, asked)

\* A channel whose order is no index of the map.
WritesOutside(d, asked) ==
    \E id \in DOMAIN asked : Found(d, id)[2] \notin Slots(d)

\* srd_inst_channel_set_all: the instances it can leave.
SetAll(d, di, asked) ==
    IF \/ DOMAIN asked = {}
       \/ NumChannels(d) = 0
       \/ \E id \in DOMAIN asked : id \notin Ids(AllChannels(d))
    THEN {di}
    ELSE { IF \E p \in 0 .. Len(d.channels) - 1 : m[p] = -1
           THEN di
           ELSE [di EXCEPT !.map = m, !.set = TRUE, !.asked = asked,
                           !.outside = WritesOutside(d, asked)]
           : m \in NewMaps(d, asked) }

-----------------------------------------------------------------------------
(* Reading options *)

Integral == {"int64", "uint64", "int32", "uint32"}

\* The value a double becomes when it is read as an integer.
Truncated(v) == IF v = "7.5" THEN "7" ELSE v

\* Forgets that an option may be unsigned.
OptIntBug(v, def) == IF v[1] \in {"int64", "int32"} THEN v[2] ELSE def

\* c_decoder_get_option_int
OptInt(v, def) ==
    IF v[1] \in Integral THEN v[2]
    ELSE IF v[1] = "double" THEN Truncated(v[2]) ELSE def

\* c_decoder_get_option_double: 32-bit integers are not accepted.
OptDbl(v, def) == IF v[1] \in {"double", "int64", "uint64"} THEN v[2] ELSE def

\* c_decoder_get_option_string
OptStr(v, def) == IF v[1] = "string" THEN v[2] ELSE def

\* c_opt_bool
OptBool(v, def) ==
    CASE v[1] = "string" /\ v[2] \in {"yes", "true", "1"} -> "1"
      [] v[1] = "string" /\ v[2] \in {"no", "false", "0"} -> "0"
      [] OTHER -> def

\* What a call of one of them returns for a value.
As(fn, v, def) ==
    CASE fn = "int"  -> OptInt(v, def)
      [] fn = "dbl"  -> OptDbl(v, def)
      [] fn = "str"  -> OptStr(v, def)
      [] fn = "bool" -> OptBool(v, def)

\* A call in start(): the instance's hash table holds what the host passed.
ReadOption(di, read) ==
    IF read.id \in DOMAIN di.options
    THEN As(read.as, di.options[read.id], read.def)
    ELSE read.def

\* The options as start() leaves them in the decoder's state.
Started(d, di) ==
    [di EXCEPT !.started = TRUE,
               !.values = { <<d.reads[i], ReadOption(di, d.reads[i])>>
                            : i \in 1 .. Len(d.reads) }]

-----------------------------------------------------------------------------
(* The host *)

\* A value of the type of an option's default, other than the default.
Other(def) ==
    <<def[1], CASE def[1] = "double"  -> "7.5"
                [] def[1] \in Integral -> IF def[2] = "7" THEN "8" ELSE "7"
                [] def[2] = "yes" -> "no"
                [] def[2] = "no"  -> "yes"
                [] OTHER -> "other">>

\* The host sets no option, one, or all; it takes the type from the default.
Settable(d) == { i \in 1 .. Len(d.options) : d.options[i].def[1] # "NULL" }
Setting(d, chosen) ==
    [id \in { d.options[i].id : i \in chosen } |->
        LET i == CHOOSE i \in chosen : d.options[i].id = id
        IN  Other(d.options[i].def)]
Settings(d) ==
    { Setting(d, c) : c \in {{}, Settable(d)} \cup { {i} : i \in Settable(d) } }

\* The host connects no channel, the required ones, one more, all, all but
\* one, or names a channel that does not exist; inputs in reverse order.
Choices(d) ==
    LET required == Ids(d.channels)
        all      == Ids(AllChannels(d))
    IN  {{}, required, all, all \cup {"nosuch"}}
          \cup { required \cup {id} : id \in Ids(d.optional) }
          \cup { all \ {id} : id \in required }
Connected(d, chosen) ==
    [id \in chosen |->
        IF \E p \in Slots(d) : ChannelId(d, p) = id
        THEN NumChannels(d) - (CHOOSE p \in Slots(d) : ChannelId(d, p) = id)
        ELSE 0]

-----------------------------------------------------------------------------
Init ==
    /\ decoder = None
    /\ inst = None

\* srd_c_decoder_load_single: the entry function and srd_c_decoder_register.
Register(x) ==
    /\ decoder = None
    /\ decoder' = Registered(x)
    /\ UNCHANGED inst

\* srd_inst_new of a C decoder.
InstNew ==
    /\ decoder # None /\ inst = None
    /\ \E given \in Settings(decoder) : inst' = NewInst(decoder, given)
    /\ UNCHANGED decoder

\* srd_inst_channel_set_all.
ChannelSetAll ==
    /\ inst # None
    /\ ~inst.started
    /\ \E chosen \in Choices(decoder) :
         inst' \in SetAll(decoder, inst, Connected(decoder, chosen))
    /\ UNCHANGED decoder

\* srd_session_start calls the decoder's start().
Start ==
    /\ inst # None
    /\ ~inst.started
    /\ inst' = Started(decoder, inst)
    /\ UNCHANGED decoder

\* srd_inst_free.
InstFree ==
    /\ inst # None
    /\ inst' = None
    /\ UNCHANGED decoder

\* srd_decoder_unload of a C decoder.
Unload ==
    /\ decoder # None /\ inst = None
    /\ decoder' = None
    /\ UNCHANGED inst

Next ==
    \/ \E x \in Loadable : Register(x)
    \/ InstNew
    \/ ChannelSetAll
    \/ Start
    \/ InstFree
    \/ Unload

Spec == Init /\ [][Next]_vars

-----------------------------------------------------------------------------
(* What the author of a decoder has to take care of *)

\* "The index of the channel, i.e. its order in the list of channels"
\* (libsigrokdecode.h:310), and no channel has the id of another.
OrderIsIndex(d) ==
    /\ \A p \in Slots(d) : AllChannels(d)[p + 1][2] = p
    /\ \A p, q \in Slots(d) : ChannelId(d, p) = ChannelId(d, q) => p = q

\* The call returns values of the type of that default.
Fits(fn, def) ==
    \/ fn = "int"  /\ def[1] \in Integral
    \/ fn = "dbl"  /\ def[1] \in {"double", "int64", "uint64"}
    \/ fn = "str"  /\ def[1] = "string"
    \/ fn = "bool" /\ def[1] = "string" /\ def[2] \in {"yes", "no"}

\* Every option is read, only by calls that return its type, and they repeat
\* the declared default.
ReadsAgree(d) ==
    \A i \in Settable(d) :
        LET o == d.options[i]
            mine == { k \in 1 .. Len(d.reads) : d.reads[k].id = o.id }
        IN  /\ \A j \in Settable(d) : d.options[j].id = o.id => j = i
            /\ mine # {}
            /\ \A k \in mine :
                 /\ Fits(d.reads[k].as, o.def)
                 /\ d.reads[k].def = IF d.reads[k].as = "bool" THEN OptBool(o.def, "?")
                                     ELSE o.def[2]

-----------------------------------------------------------------------------
(* Properties *)

Distinct(table) ==
    \A i, j \in 1 .. Len(table) : i # j => table[i] # table[j]

\* The checks that srd_decoder_load makes of a Python decoder, which
\* srd_c_decoder_register leaves to the author of a C decoder: no table is
\* read past its end, no id of a channel, option, row, input, output or tag
\* occurs twice, the classes are named, and rows list existing classes.
Validated ==
    decoder # None =>
        LET d == decoder
            channels == [i \in 1 .. NumChannels(d) |-> AllChannels(d)[i][1]]
            options  == [i \in 1 .. Len(d.options) |-> d.options[i].id]
            rows     == [i \in 1 .. Len(d.rows) |-> d.rows[i].id]
        IN  /\ \A ids \in {channels, options, rows, d.inputs, d.outputs,
                           d.binary, d.tags} :
                 Distinct(ids) /\ \A i \in 1 .. Len(ids) : ids[i] # WildId
            /\ d.named
            /\ \A i \in 1 .. Len(d.rows) :
                 \A j \in 1 .. Len(d.rows[i].classes) :
                    d.rows[i].classes[j] \in 0 .. d.classes - 1

\* After srd_inst_channel_set_all succeeds, the pin with index p that the
\* decoder's code reads is the input the host chose for the p-th channel of
\* the decoder's list, and the channels the host left out are unconnected.
ChannelsWired ==
    (inst # None /\ inst.set) =>
        /\ ~inst.outside
        /\ \A p \in Slots(decoder) :
             inst.map[p] = IF ChannelId(decoder, p) \in DOMAIN inst.asked
                           THEN inst.asked[ChannelId(decoder, p)]
                           ELSE -1

\* A started decoder works with the value the host set for an option, and
\* with the declared default of an option the host did not set.
OptionsHonoured ==
    (inst # None /\ inst.started) =>
        \A i \in Settable(decoder) :
            LET o == decoder.options[i]
                wanted == IF o.id \in DOMAIN inst.options
                          THEN inst.options[o.id] ELSE o.def
                mine == { v \in inst.values : v[1].id = o.id }
            IN  /\ mine # {}
                /\ \A v \in mine :
                     v[2] = IF v[1].as = "bool" THEN OptBool(wanted, "?")
                            ELSE wanted[2]
=============================================================================
