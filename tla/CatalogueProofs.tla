-------------------------- MODULE CatalogueProofs ---------------------------
(***************************************************************************)
(* Proofs about Catalogue, for every set of decoders and whatever the host *)
(* connects and sets.                                                      *)
(*                                                                         *)
(* srd_c_decoder_register validates nothing.  The theorems say what the    *)
(* authors of C decoders have to take care of so that the library serves   *)
(* the decoder as it should: OrderIsIndex for the channels, ReadsAgree for *)
(* the options.  TLC evaluates both for the decoders of the repository     *)
(* (AuthorsTookCare in MCCatalogue).                                       *)
(***************************************************************************)
EXTENDS Catalogue, TLAPS, SequenceTheorems, FiniteSetTheorems

\* A channel of a table, or what is found past its end.
IdOrWild == STRING \cup {WildId}
Channel == IdOrWild \X Int

-----------------------------------------------------------------------------
(* Tables.                                                                 *)

\* A copied table has the number of entries the descriptor gives.
LEMMA CopySeq ==
  ASSUME NEW S, NEW T, S \subseteq T,
         NEW table \in Seq(S), NEW n \in Nat, NEW wild \in T
  PROVE  Copy(table, n, wild) \in Seq(T) /\ Len(Copy(table, n, wild)) = n
<1>1. \A i \in 1 .. n : i <= Len(table) => table[i] \in T
  OBVIOUS
<1>2. Copy(table, n, wild) \in [1 .. n -> T]
  BY <1>1 DEF Copy
<1>3. QED
  BY <1>2

\* The channels of a registered decoder are a list.
LEMMA ChannelsListed ==
  ASSUME NEW x \in Loadable, NEW d, d = Registered(x)
  PROVE  /\ AllChannels(d) \in Seq(Channel) /\ NumChannels(d) \in Nat
         /\ Len(AllChannels(d)) = NumChannels(d)
<1> DEFINE Plain == STRING \X Int
<1>1. /\ x.num[1] \in Nat /\ x.num[2] \in Nat
      /\ x.t.channels \in Seq(Plain) /\ x.t.optional \in Seq(Plain)
  BY LoadableTyped DEF Typed
<1>2. WildChannel \in Channel /\ Plain \subseteq Channel
  <2>1. -1 \in Int
    BY SMT
  <2>2. ASSUME NEW S, NEW a \in S, NEW b \in Int PROVE <<a, b>> \in S \X Int
    OBVIOUS
  <2>3. WildId \in IdOrWild /\ STRING \subseteq IdOrWild
    BY DEF IdOrWild
  <2>4. WildChannel \in Channel
    BY <2>1, <2>2, <2>3, Zenon DEF WildChannel, Channel
  <2>5. Plain \subseteq Channel
    BY <2>3 DEF Channel
  <2>6. QED
    BY <2>4, <2>5
<1> HIDE DEF Plain
<1>3. d.channels \in Seq(Channel) /\ d.optional \in Seq(Channel)
  BY <1>1, <1>2, CopySeq DEF Registered
<1>4. AllChannels(d) \in Seq(Channel)
  BY <1>3, ConcatProperties DEF AllChannels
<1>5. QED
  BY <1>4, LenProperties DEF NumChannels

-----------------------------------------------------------------------------
(* Connecting channels.                                                    *)

\* The lookup by id finds the channel at its index.
LEMMA FoundIs ==
  ASSUME NEW d, AllChannels(d) \in Seq(Channel), OrderIsIndex(d),
         NEW p \in Slots(d)
  PROVE  Found(d, ChannelId(d, p))[2] = p
<1> DEFINE all == AllChannels(d)
           id == ChannelId(d, p)
           P(i) == all[i][1] = id /\ \A j \in 1 .. i - 1 : all[j][1] # id
<1>1. NumChannels(d) = Len(all) /\ Len(all) \in Nat
  BY DEF NumChannels
<1>2. p \in Nat /\ p + 1 \in 1 .. Len(all) /\ all[p + 1][1] = id
  BY <1>1 DEF Slots, ChannelId
<1>3. ASSUME NEW i \in 1 .. Len(all), all[i][1] = id PROVE i = p + 1
  <2>1. i - 1 \in Slots(d) /\ (i - 1) + 1 = i
    BY <1>1 DEF Slots
  <2>2. ChannelId(d, i - 1) = id
    BY <1>3, <2>1 DEF ChannelId
  <2>3. i - 1 = p
    BY <2>1, <2>2 DEF OrderIsIndex
  <2>4. QED
    BY <2>3, <1>2
<1>4. P(p + 1)
  <2> SUFFICES ASSUME NEW j \in 1 .. (p + 1) - 1, all[j][1] = id PROVE FALSE
    BY <1>2
  <2>1. j \in 1 .. Len(all) /\ j # p + 1
    BY <1>1, <1>2
  <2>2. QED
    BY <1>3, <2>1
<1> DEFINE c == CHOOSE i \in 1 .. Len(all) : P(i)
<1>5. c \in 1 .. Len(all) /\ P(c)
  BY <1>2, <1>4
<1>6. c = p + 1
  BY <1>3, <1>5
<1>7. Found(d, id) = all[c]
  BY DEF Found
<1> HIDE DEF c
<1>8. QED
  BY <1>6, <1>7 DEF OrderIsIndex

\* An id of the list is the id at some index.
LEMMA InSlot ==
  ASSUME NEW d, AllChannels(d) \in Seq(Channel), NEW id \in Ids(AllChannels(d))
  PROVE  \E q \in Slots(d) : id = ChannelId(d, q)
<1>1. PICK i \in 1 .. Len(AllChannels(d)) : id = AllChannels(d)[i][1]
  BY DEF Ids
<1>2. i - 1 \in Slots(d) /\ (i - 1) + 1 = i
  BY DEF Slots, NumChannels
<1>3. QED
  BY <1>1, <1>2 DEF ChannelId

\* What the host asks for at a slot is at most the channel of that index.
LEMMA AskedAt ==
  ASSUME NEW d, AllChannels(d) \in Seq(Channel), OrderIsIndex(d),
         NEW asked, DOMAIN asked \subseteq Ids(AllChannels(d)),
         NEW p \in Slots(d)
  PROVE  { id \in DOMAIN asked : Found(d, id)[2] = p }
            = IF ChannelId(d, p) \in DOMAIN asked THEN {ChannelId(d, p)} ELSE {}
<1>1. Found(d, ChannelId(d, p))[2] = p
  BY FoundIs
<1>2. ASSUME NEW id \in DOMAIN asked, Found(d, id)[2] = p
      PROVE  id = ChannelId(d, p)
  <2>1. PICK q \in Slots(d) : id = ChannelId(d, q)
    BY InSlot
  <2>2. Found(d, id)[2] = q
    BY <2>1, FoundIs
  <2>3. QED
    BY <1>2, <2>1, <2>2
<1>3. QED
  BY <1>1, <1>2

\* No value is written outside the map.
LEMMA NotOutside ==
  ASSUME NEW d, AllChannels(d) \in Seq(Channel), OrderIsIndex(d),
         NEW asked, DOMAIN asked \subseteq Ids(AllChannels(d))
  PROVE  ~WritesOutside(d, asked)
<1> SUFFICES ASSUME NEW id \in DOMAIN asked PROVE Found(d, id)[2] \in Slots(d)
  BY DEF WritesOutside
<1>1. PICK q \in Slots(d) : id = ChannelId(d, q)
  BY InSlot
<1>2. QED
  BY <1>1, FoundIs

\* The new map has at every index the input asked for that channel, if any.
LEMMA MapsWired ==
  ASSUME NEW d, AllChannels(d) \in Seq(Channel), OrderIsIndex(d),
         NEW asked, DOMAIN asked \subseteq Ids(AllChannels(d)),
         NEW m \in NewMaps(d, asked), NEW p \in Slots(d)
  PROVE  m[p] = IF ChannelId(d, p) \in DOMAIN asked
                THEN asked[ChannelId(d, p)] ELSE -1
<1> DEFINE At(q) == { id \in DOMAIN asked : Found(d, id)[2] = q }
           one == [q \in Slots(d) |-> IF At(q) = {} THEN -1
                                      ELSE asked[CHOOSE id \in At(q) : TRUE]]
<1>1. ASSUME NEW q \in Slots(d)
      PROVE  At(q) = IF ChannelId(d, q) \in DOMAIN asked THEN {ChannelId(d, q)} ELSE {}
  BY AskedAt
<1>2. ASSUME NEW q \in Slots(d) PROVE Cardinality(At(q)) <= 1
  <2>1. Cardinality({}) = 0 /\ Cardinality({ChannelId(d, q)}) = 1
    BY FS_EmptySet, FS_Singleton
  <2>2. Cardinality(At(q)) \in {0, 1}
    <3>1. At(q) = {} \/ At(q) = {ChannelId(d, q)}
      BY <1>1
    <3> HIDE DEF At
    <3>2. QED
      BY <2>1, <3>1
  <2> HIDE DEF At
  <2>3. QED
    BY <2>2
<1>3. m = one
  BY <1>2 DEF NewMaps
<1> HIDE DEF At
<1>4. m[p] = IF At(p) = {} THEN -1 ELSE asked[CHOOSE id \in At(p) : TRUE]
  BY <1>3
<1>5. CASE ChannelId(d, p) \in DOMAIN asked
  <2>1. At(p) = {ChannelId(d, p)}
    BY <1>1, <1>5
  <2>2. (CHOOSE id \in At(p) : TRUE) = ChannelId(d, p)
    BY <2>1
  <2>3. QED
    BY <1>4, <1>5, <2>1, <2>2
<1>6. CASE ChannelId(d, p) \notin DOMAIN asked
  <2>1. At(p) = {}
    BY <1>1, <1>6
  <2>2. QED
    BY <1>4, <1>6, <2>1
<1>7. QED
  BY <1>5, <1>6

-----------------------------------------------------------------------------
(* The invariants.                                                         *)

\* The instance is one of the registered decoder.
InstShape(di) ==
    /\ DOMAIN di = {"map", "options", "set", "asked", "outside", "started", "values"}
    /\ di.set \in BOOLEAN /\ di.started \in BOOLEAN

Made ==
    /\ decoder # None => \E x \in Loadable : decoder = Registered(x)
    /\ inst # None => decoder # None /\ InstShape(inst)

\* Every call of the host keeps them so.
LEMMA MadeStep == Made /\ [Next]_vars => Made'
<1> SUFFICES ASSUME Made, [Next]_vars PROVE Made'
  OBVIOUS
<1> USE DEF Made
<1>1. ASSUME NEW x \in Loadable, Register(x) PROVE Made'
  BY <1>1 DEF Register
<1>2. CASE InstNew
  <2>1. PICK given : inst' = NewInst(decoder, given)
    BY <1>2 DEF InstNew
  <2>2. InstShape(inst')
    BY <2>1 DEF NewInst, InstShape
  <2>3. QED
    BY <1>2, <2>2 DEF InstNew
<1>3. CASE ChannelSetAll
  <2>1. PICK asked : inst' \in SetAll(decoder, inst, asked)
    BY <1>3 DEF ChannelSetAll
  <2>2. InstShape(inst) /\ decoder' = decoder /\ inst # None
    BY <1>3 DEF ChannelSetAll
  <2>3. \/ inst' = inst
        \/ \E m : inst' = [inst EXCEPT !.map = m, !.set = TRUE, !.asked = asked,
                              !.outside = WritesOutside(decoder, asked)]
    BY <2>1 DEF SetAll
  <2>4. InstShape(inst')
    BY <2>2, <2>3 DEF InstShape
  <2>5. QED
    BY <2>2, <2>4
<1>4. CASE Start
  <2>1. InstShape(inst') /\ decoder' = decoder /\ inst # None
    BY <1>4 DEF Start, Started, InstShape
  <2>2. QED
    BY <2>1
<1>5. CASE InstFree
  BY <1>5 DEF InstFree
<1>6. CASE Unload
  BY <1>6 DEF Unload
<1>7. CASE UNCHANGED vars
  BY <1>7 DEF vars
<1>8. QED
  BY <1>1, <1>2, <1>3, <1>4, <1>5, <1>6, <1>7 DEF Next

\* A decoder that is registered, and its instance.
LEMMA MadeInvariant == Spec => []Made
<1>1. Init => Made
  BY DEF Init, Made
<1>2. QED
  BY <1>1, MadeStep, PTL DEF Spec

\* Connecting channels wires them; nothing else touches the map.
LEMMA WiredStep ==
  ASSUME \A x \in Loadable : OrderIsIndex(Registered(x))
  PROVE  Made /\ ChannelsWired /\ [Next]_vars => ChannelsWired'
<1> SUFFICES ASSUME Made, ChannelsWired, [Next]_vars PROVE ChannelsWired'
  OBVIOUS
<1>1. ASSUME inst' = inst, decoder' = decoder PROVE ChannelsWired'
  BY <1>1 DEF ChannelsWired
<1>2. ASSUME NEW x \in Loadable, Register(x) PROVE ChannelsWired'
  <2>1. inst = None
    BY <1>2 DEF Register, Made
  <2>2. QED
    BY <1>2, <2>1 DEF Register, ChannelsWired
<1>3. CASE InstNew
  <2>1. PICK given : inst' = NewInst(decoder, given)
    BY <1>3 DEF InstNew
  <2>2. inst'.set = FALSE
    BY <2>1 DEF NewInst
  <2>3. QED
    BY <2>2 DEF ChannelsWired
<1>4. CASE ChannelSetAll
  <2>1. PICK asked : inst' \in SetAll(decoder, inst, asked)
    BY <1>4 DEF ChannelSetAll
  <2>2. decoder' = decoder /\ inst # None
    BY <1>4 DEF ChannelSetAll
  <2>3. CASE inst' = inst
    BY <1>1, <2>2, <2>3
  <2>4. CASE inst' # inst
    <3>1. /\ DOMAIN asked \subseteq Ids(AllChannels(decoder))
          /\ \E m \in NewMaps(decoder, asked) :
                inst' = [inst EXCEPT !.map = m, !.set = TRUE, !.asked = asked,
                                     !.outside = WritesOutside(decoder, asked)]
      BY <2>1, <2>4 DEF SetAll
    <3>2. PICK m \in NewMaps(decoder, asked) :
                inst' = [inst EXCEPT !.map = m, !.set = TRUE, !.asked = asked,
                                     !.outside = WritesOutside(decoder, asked)]
      BY <3>1
    <3>3. /\ inst'.map = m /\ inst'.asked = asked
          /\ inst'.outside = WritesOutside(decoder, asked)
      BY <2>2, <3>2 DEF Made, InstShape
    <3>4. PICK x \in Loadable : decoder = Registered(x)
      BY <2>2 DEF Made
    <3>5. AllChannels(decoder) \in Seq(Channel) /\ OrderIsIndex(decoder)
      BY <3>4, ChannelsListed
    <3>6. ~inst'.outside
      BY <3>1, <3>3, <3>5, NotOutside
    <3>7. ASSUME NEW p \in Slots(decoder)
          PROVE  m[p] = IF ChannelId(decoder, p) \in DOMAIN asked
                        THEN asked[ChannelId(decoder, p)] ELSE -1
      BY <3>1, <3>5, MapsWired
    <3>8. QED
      BY <2>2, <3>3, <3>6, <3>7 DEF ChannelsWired
  <2>5. QED
    BY <2>3, <2>4
<1>5. CASE Start
  <2>1. /\ inst'.set = inst.set /\ inst'.map = inst.map /\ inst'.asked = inst.asked
        /\ inst'.outside = inst.outside /\ decoder' = decoder /\ inst # None
    BY <1>5 DEF Start, Started, Made, InstShape
  <2>2. QED
    BY <2>1 DEF ChannelsWired
<1>6. CASE InstFree
  BY <1>6 DEF InstFree, ChannelsWired
<1>7. CASE Unload
  BY <1>7 DEF Unload, ChannelsWired
<1>8. CASE UNCHANGED vars
  BY <1>1, <1>8 DEF vars
<1>9. QED
  BY <1>2, <1>3, <1>4, <1>5, <1>6, <1>7, <1>8 DEF Next

\* srd_inst_channel_set_all wires the channels of every decoder whose orders are
\* the indices of its list, whichever channels the host connects or leaves out
\* and in whatever order the hash table yields them.
THEOREM ChannelsWiredInvariant ==
  ASSUME \A x \in Loadable : OrderIsIndex(Registered(x))
  PROVE  Spec => []ChannelsWired
<1>1. Init => ChannelsWired
  BY DEF Init, ChannelsWired
<1>2. QED
  BY <1>1, WiredStep, MadeInvariant, PTL DEF Spec

-----------------------------------------------------------------------------
(* Reading options.                                                        *)

\* The instance holds what the host set, and a started one what its calls
\* returned.
Chosen ==
    inst # None =>
        /\ \E chosen \in SUBSET Settable(decoder) :
              inst.options = Setting(decoder, chosen)
        /\ inst.started =>
              inst.values = { <<decoder.reads[i], ReadOption(inst, decoder.reads[i])>>
                              : i \in 1 .. Len(decoder.reads) }

\* Only srd_inst_option_set changes the options, before the decoder reads them.
LEMMA ChosenStep == Made /\ Chosen /\ [Next]_vars => Chosen'
<1> SUFFICES ASSUME Made, Chosen, [Next]_vars PROVE Chosen'
  OBVIOUS
<1>1. ASSUME inst' = inst, decoder' = decoder PROVE Chosen'
  BY <1>1 DEF Chosen
<1>2. ASSUME NEW x \in Loadable, Register(x) PROVE Chosen'
  <2>1. inst = None
    BY <1>2 DEF Register, Made
  <2>2. QED
    BY <1>2, <2>1 DEF Register, Chosen
<1>3. CASE InstNew
  <2>1. PICK given \in Settings(decoder) : inst' = NewInst(decoder, given)
    BY <1>3 DEF InstNew
  <2>2. inst'.options = given /\ inst'.started = FALSE
    BY <2>1 DEF NewInst
  <2>3. \E chosen \in SUBSET Settable(decoder) : given = Setting(decoder, chosen)
    BY DEF Settings
  <2>4. decoder' = decoder
    BY <1>3 DEF InstNew
  <2>5. QED
    BY <2>2, <2>3, <2>4 DEF Chosen
<1>4. CASE ChannelSetAll
  <2>1. PICK asked : inst' \in SetAll(decoder, inst, asked)
    BY <1>4 DEF ChannelSetAll
  <2>2. decoder' = decoder /\ inst # None /\ ~inst.started /\ InstShape(inst)
    BY <1>4 DEF ChannelSetAll, Made
  <2>3. \/ inst' = inst
        \/ \E m : inst' = [inst EXCEPT !.map = m, !.set = TRUE, !.asked = asked,
                              !.outside = WritesOutside(decoder, asked)]
    BY <2>1 DEF SetAll
  <2>4. inst'.options = inst.options /\ inst'.started = inst.started
    BY <2>2, <2>3 DEF InstShape
  <2>5. QED
    BY <2>2, <2>4 DEF Chosen
<1>5. CASE Start
  <2>1. InstShape(inst) /\ inst # None /\ decoder' = decoder
    BY <1>5 DEF Start, Made
  <2>2. /\ inst'.options = inst.options
        /\ inst'.values = { <<decoder.reads[i], ReadOption(inst, decoder.reads[i])>>
                            : i \in 1 .. Len(decoder.reads) }
    BY <1>5, <2>1 DEF Start, Started, InstShape
  <2>3. ASSUME NEW r PROVE ReadOption(inst', r) = ReadOption(inst, r)
    BY <2>2 DEF ReadOption
  <2>4. QED
    BY <2>1, <2>2, <2>3 DEF Chosen
<1>6. CASE InstFree
  BY <1>6 DEF InstFree, Chosen
<1>7. CASE Unload
  BY <1>7 DEF Unload, Chosen
<1>8. CASE UNCHANGED vars
  BY <1>1, <1>8 DEF vars
<1>9. QED
  BY <1>2, <1>3, <1>4, <1>5, <1>6, <1>7, <1>8 DEF Next

\* A call that fits the type of the default returns the value.
LEMMA CallReturns ==
  ASSUME NEW fn, NEW def, Fits(fn, def), NEW other
  PROVE  As(fn, Other(def), other) = IF fn = "bool" THEN OptBool(Other(def), "?")
                                     ELSE Other(def)[2]
<1>1. Other(def)[1] = def[1]
  BY DEF Other
<1>2. CASE fn = "int"
  BY <1>1, <1>2 DEF Fits, As, OptInt, Integral
<1>3. CASE fn = "dbl"
  BY <1>1, <1>3 DEF Fits, As, OptDbl
<1>4. CASE fn = "str"
  BY <1>1, <1>4 DEF Fits, As, OptStr
<1>5. CASE fn = "bool"
  <2>1. def[1] = "string" /\ def[2] \in {"yes", "no"}
    BY <1>5 DEF Fits
  <2>2. Other(def)[2] \in {"yes", "no"}
    BY <2>1 DEF Other, Integral
  <2>3. QED
    BY <1>1, <1>5, <2>1, <2>2 DEF As, OptBool
<1>6. QED
  BY <1>2, <1>3, <1>4, <1>5 DEF Fits

\* The options a decoder works with are those the host chose, and else the
\* defaults the decoder declares: if its calls agree with its declarations.
THEOREM OptionsHonouredInvariant ==
  ASSUME \A x \in Loadable : ReadsAgree(Registered(x))
  PROVE  Spec => []OptionsHonoured
<1>1. Init => Chosen
  BY DEF Init, Chosen
<1>2. Made /\ Chosen => OptionsHonoured
  <2> SUFFICES ASSUME Made, Chosen, inst # None, inst.started,
                      NEW i \in Settable(decoder)
               PROVE  LET o == decoder.options[i]
                          wanted == IF o.id \in DOMAIN inst.options
                                    THEN inst.options[o.id] ELSE o.def
                          mine == { v \in inst.values : v[1].id = o.id }
                      IN  /\ mine # {}
                          /\ \A v \in mine :
                               v[2] = IF v[1].as = "bool" THEN OptBool(wanted, "?")
                                      ELSE wanted[2]
    BY DEF OptionsHonoured
  <2> DEFINE d == decoder
             o == d.options[i]
             wanted == IF o.id \in DOMAIN inst.options
                       THEN inst.options[o.id] ELSE o.def
             mine == { v \in inst.values : v[1].id = o.id }
             Value(r) == ReadOption(inst, r)
  <2>1. ReadsAgree(d)
    BY DEF Made
  <2>2. /\ \A j \in Settable(d) : d.options[j].id = o.id => j = i
        /\ \E k \in 1 .. Len(d.reads) : d.reads[k].id = o.id
        /\ \A k \in 1 .. Len(d.reads) : d.reads[k].id = o.id =>
             /\ Fits(d.reads[k].as, o.def)
             /\ d.reads[k].def = IF d.reads[k].as = "bool" THEN OptBool(o.def, "?")
                                 ELSE o.def[2]
    BY <2>1 DEF ReadsAgree
  <2>3. inst.values = { <<d.reads[k], Value(d.reads[k])>> : k \in 1 .. Len(d.reads) }
    BY DEF Chosen
  <2>4. PICK chosen \in SUBSET Settable(d) : inst.options = Setting(d, chosen)
    BY DEF Chosen
  <2>5. o.id \in DOMAIN inst.options => inst.options[o.id] = Other(o.def)
    <3> SUFFICES ASSUME o.id \in DOMAIN inst.options
                 PROVE  inst.options[o.id] = Other(o.def)
      OBVIOUS
    <3>1. \E j \in chosen : d.options[j].id = o.id
      BY <2>4 DEF Setting
    <3> DEFINE c == CHOOSE j \in chosen : d.options[j].id = o.id
    <3>2. c \in chosen /\ d.options[c].id = o.id
      BY <3>1
    <3>3. inst.options[o.id] = Other(d.options[c].def)
      BY <2>4, <3>1 DEF Setting
    <3> HIDE DEF c
    <3>4. c = i
      BY <2>2, <2>4, <3>2
    <3>5. QED
      BY <3>3, <3>4
  <2>6. mine # {}
    <3>1. PICK k \in 1 .. Len(d.reads) : d.reads[k].id = o.id
      BY <2>2
    <3>2. <<d.reads[k], Value(d.reads[k])>> \in mine
      BY <2>3, <3>1
    <3>3. QED
      BY <3>2
  <2>7. ASSUME NEW v \in mine
        PROVE  v[2] = IF v[1].as = "bool" THEN OptBool(wanted, "?") ELSE wanted[2]
    <3>1. PICK k \in 1 .. Len(d.reads) :
             v = <<d.reads[k], Value(d.reads[k])>> /\ d.reads[k].id = o.id
      BY <2>3
    <3> DEFINE r == d.reads[k]
    <3>2. v[1] = r /\ v[2] = Value(r)
      BY <3>1
    <3>3. /\ Fits(r.as, o.def) /\ r.id = o.id
          /\ r.def = IF r.as = "bool" THEN OptBool(o.def, "?") ELSE o.def[2]
      BY <2>2, <3>1
    <3> HIDE DEF r
    <3>4. CASE o.id \in DOMAIN inst.options
      <4>1. wanted = Other(o.def)
        BY <2>5, <3>4
      <4>2. Value(r) = As(r.as, Other(o.def), r.def)
        BY <2>5, <3>3, <3>4 DEF ReadOption
      <4>3. QED
        BY <3>2, <3>3, <4>1, <4>2, CallReturns
    <3>5. CASE o.id \notin DOMAIN inst.options
      <4>1. wanted = o.def /\ Value(r) = r.def
        BY <3>3, <3>5 DEF ReadOption
      <4>2. QED
        BY <3>2, <3>3, <4>1
    <3>6. QED
      BY <3>4, <3>5
  <2>8. QED
    BY <2>6, <2>7
<1>3. QED
  BY <1>1, <1>2, ChosenStep, MadeInvariant, PTL DEF Spec
=============================================================================
