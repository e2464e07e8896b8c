------------------------------ MODULE Registry ------------------------------
(***************************************************************************)
(* The library's lists and who owns what: loaded decoders (decoder.c), C   *)
(* decoder libraries (dll_registry.c), sessions (session.c), decoder       *)
(* instances and their stacks (instance.c), and srd_init and srd_exit      *)
(* (srd.c).  The client calls one function at a time.                      *)
(*                                                                         *)
(* Decoders are named after their module or library.  An instance is the   *)
(* number of its creation; it is live until it is freed, and bad records   *)
(* that the library has used one after that, or called into a C library it *)
(* has closed.  Threads are in DecodeHandshake and AnnBatch.               *)
(*                                                                         *)
(* Definitions whose name ends in Bug are wrong variants of the one that   *)
(* follows them; the specification does not use them.                      *)
(***************************************************************************)
EXTENDS Integers, FiniteSets

CONSTANTS
    PyDecoders,      \* Python modules in the search path
    Invalid,         \* those of them that import but are refused
    CDecoders,       \* C decoder libraries
    Broken,          \* those of them that cannot be used
    Sessions,        \* identities of sessions
    MaxInsts,        \* bound: instances
    UnloadsInUse,    \* the client unloads decoders while it has instances
    Stacks,          \* the client stacks instances
    StacksAnywhere,  \* it also stacks what is stacked already
    GivenIds         \* instance IDs that the client may choose

Decoders == PyDecoders \cup CDecoders
Insts == 1 .. MaxInsts

\* The ID "d-k" is <<d, k>>; any other one a client may choose is as good as
\* some <<d, 0>>.
Ids == Decoders \X Nat
NoId == <<"none", 0>>

ASSUME RegistryAssumption ==
    /\ PyDecoders \cap CDecoders = {}
    /\ Invalid \subseteq PyDecoders
    /\ Broken \subseteq CDecoders
    /\ MaxInsts \in Nat
    /\ UnloadsInUse \in BOOLEAN
    /\ Stacks \in BOOLEAN
    /\ StacksAnywhere \in BOOLEAN
    /\ GivenIds \subseteq Ids

VARIABLES
    up,                  \* max_session_id is not -1
    imported,            \* Python's sys.modules
    pd_list,             \* listed decoders
    c_dll_registry,      \* status per library
    sessions, di_list,   \* sessions and their unstacked instances
    next_di,             \* what is stacked on an instance
    twice,               \* pairs of a list next_di and a member it has again
    decoder, inst_id,    \* per instance
    given,               \* history: instances whose ID the client chose
    made, live,          \* instances created so far, and not freed
    exiting,             \* how far srd_exit has come
    bad,                 \* history: see above
    claimed              \* history: loads that returned SRD_OK, not undone

instances == <<next_di, twice, decoder, inst_id, given, made>>
vars == <<up, imported, pd_list, c_dll_registry, sessions, di_list, instances,
          live, exiting, bad, claimed>>

\* All lists stay within their types.
TypeOK ==
    /\ up \in BOOLEAN
    /\ imported \subseteq PyDecoders
    /\ pd_list \subseteq Decoders
    /\ c_dll_registry \in [CDecoders -> {"absent", "loaded", "failed"}]
    /\ sessions \subseteq Sessions
    /\ di_list \in [Sessions -> SUBSET Insts]
    /\ next_di \in [Insts -> SUBSET Insts]
    /\ twice \subseteq Insts \X Insts
    /\ decoder \in [Insts -> Decoders \cup {"none"}]
    /\ inst_id \in [Insts -> Ids \cup {NoId}]
    /\ given \subseteq Insts
    /\ made \in 0 .. MaxInsts
    /\ live \subseteq 1 .. made
    /\ exiting \in {"no", "decoders", "libraries"}
    /\ bad \in BOOLEAN
    /\ claimed \subseteq Decoders

Init ==
    /\ up = FALSE
    /\ imported = {}
    /\ pd_list = {}
    /\ c_dll_registry = [d \in CDecoders |-> "absent"]
    /\ sessions = {}
    /\ di_list = [s \in Sessions |-> {}]
    /\ next_di = [i \in Insts |-> {}]
    /\ twice = {}
    /\ decoder = [i \in Insts |-> "none"]
    /\ inst_id = [i \in Insts |-> NoId]
    /\ given = {}
    /\ made = 0
    /\ live = {}
    /\ exiting = "no"
    /\ bad = FALSE
    /\ claimed = {}

\* After a use of freed memory anything could happen; the model stops there.
MayCall == up /\ exiting = "no" /\ ~bad

-----------------------------------------------------------------------------
(* srd_inst_free_all and who calls it.                                     *)

\* Closed libraries: their decoders' functions must not be called.
Closed == {d \in CDecoders : c_dll_registry[d] # "loaded"}

\* Freeing the instances in set S uses each of them, and calls destroy() of the
\* C ones.
FreeUses(S) == \E i \in S : i \notin live \/ decoder[i] \in Closed

\* Every instance in the sessions' lists; instances stacked on them are not.
FreeAll(which) ==
    LET freed == UNION {di_list[s] : s \in which}
    IN  /\ bad' = (bad \/ FreeUses(freed))
        /\ live' = live \ freed

\* srd_session_destroy.
DestroyLeakBug(which) ==
    /\ sessions' = sessions \ which
    /\ di_list' = [s \in Sessions |-> IF s \in which THEN {} ELSE di_list[s]]
    /\ UNCHANGED <<bad, live>>

DestroyKeepBug(which) ==
    /\ FreeAll(which)
    /\ sessions' = sessions \ which
    /\ UNCHANGED di_list

Destroy(which) ==
    /\ FreeAll(which)
    /\ sessions' = sessions \ which
    /\ di_list' = [s \in Sessions |-> IF s \in which THEN {} ELSE di_list[s]]

SessionNew(s) ==
    /\ MayCall
    /\ s \notin sessions
    /\ sessions' = sessions \cup {s}
    /\ UNCHANGED <<up, imported, pd_list, c_dll_registry, di_list, instances,
                   live, exiting, bad, claimed>>

SessionDestroy(s) ==
    /\ MayCall
    /\ s \in sessions
    /\ Destroy({s})
    /\ UNCHANGED <<up, imported, pd_list, c_dll_registry, instances, exiting,
                   claimed>>

-----------------------------------------------------------------------------
(* Decoders.                                                               *)

\* What srd_decoder_load asks of an imported module: a Decoder class with the
\* right base, API version, methods and attributes, and no duplicate names.
Accepted(d) == d \notin Invalid

\* srd_decoder_load: a module Python already knows is not looked at again; one
\* that imports stays known even if it is refused.  srd_decoder_load_all calls
\* it for every module and ignores its result.
Load(d) ==
    /\ MayCall
    /\ imported' = imported \cup {d}
    /\ pd_list' = IF d \notin imported /\ Accepted(d) THEN pd_list \cup {d}
                                                     ELSE pd_list
    /\ claimed' = IF d \in imported \/ Accepted(d) THEN claimed \cup {d}
                                                  ELSE claimed
    /\ UNCHANGED <<up, c_dll_registry, sessions, di_list, instances, live,
                   exiting, bad>>

\* A library opens, has an entry point, and a version that is supported.
Usable(d) == d \notin Broken

\* srd_c_decoder_register.
Register(d) == pd_list' = pd_list \cup {d}

\* srd_c_decoder_load: a library the registry knows is not looked at again,
\* whatever its status; a usable one is registered.
CLoad(d) ==
    /\ MayCall
    /\ IF c_dll_registry[d] # "absent"
       THEN /\ claimed' = claimed \cup {d}
            /\ UNCHANGED <<pd_list, c_dll_registry>>
       ELSE IF Usable(d)
       THEN /\ c_dll_registry' = [c_dll_registry EXCEPT ![d] = "loaded"]
            /\ Register(d)
            /\ claimed' = claimed \cup {d}
       ELSE /\ c_dll_registry' = [c_dll_registry EXCEPT ![d] = "failed"]
            /\ UNCHANGED <<pd_list, claimed>>
    /\ UNCHANGED <<up, imported, sessions, di_list, instances, live, exiting,
                   bad>>

\* Clients may wait with unloading until there are no instances.
MayUnload == UnloadsInUse \/ \A s \in sessions : di_list[s] = {}

\* srd_decoder_unload: frees the instances of every session, but not the lists
\* that hold them.  A C library stays in the registry.
Unload(d) ==
    /\ MayCall
    /\ MayUnload
    /\ d \in pd_list
    /\ FreeAll(sessions)
    /\ pd_list' = pd_list \ {d}
    /\ claimed' = claimed \ {d}
    /\ UNCHANGED <<up, imported, c_dll_registry, sessions, di_list, instances,
                   exiting>>

\* srd_decoder_unload_all: the same for one decoder after the other.
UnloadEach ==
    /\ bad' = \/ bad
              \/ pd_list # {} /\ FreeUses(UNION {di_list[s] : s \in sessions})
              \/ /\ Cardinality(pd_list) > 1
                 /\ \E s \in sessions : di_list[s] # {}
    /\ live' = IF pd_list = {} THEN live
               ELSE live \ UNION {di_list[s] : s \in sessions}
    /\ pd_list' = {}
    /\ claimed' = {}

UnloadAll ==
    /\ MayCall
    /\ MayUnload
    /\ UnloadEach
    /\ UNCHANGED <<up, imported, c_dll_registry, sessions, di_list, instances,
                   exiting>>

\* srd_c_decoder_unload: only a loaded library.  The search for active
\* instances asks for a decoder_state that C instances never have, so it never
\* finds any.
CUnload(d) ==
    /\ MayCall
    /\ MayUnload
    /\ c_dll_registry[d] = "loaded"
    /\ pd_list' = pd_list \ {d}
    /\ c_dll_registry' = [c_dll_registry EXCEPT ![d] = "absent"]
    /\ claimed' = claimed \ {d}
    /\ UNCHANGED <<up, imported, sessions, di_list, instances, live, exiting,
                   bad>>

-----------------------------------------------------------------------------
(* Instances.                                                              *)

\* srd_inst_find_by_id looks at the unstacked instances of a session and at
\* those stacked directly on them.
Searched(s) == di_list[s] \cup UNION {next_di[i] : i \in di_list[s]}

\* The first number that srd_inst_find_by_id does not find with the decoder's
\* name.
FirstFreeIdBug(s, d) ==
    LET taken == {inst_id[j] : j \in di_list[s]}
    IN  <<d, CHOOSE k \in Insts :
                 <<d, k>> \notin taken /\ \A m \in 1 .. k - 1 : <<d, m>> \in taken>>

FirstFreeId(s, d) ==
    LET taken == {inst_id[j] : j \in Searched(s)}
    IN  <<d, CHOOSE k \in Insts :
                 <<d, k>> \notin taken /\ \A m \in 1 .. k - 1 : <<d, m>> \in taken>>

\* srd_inst_new and create_c_decoder_inst: an ID in the options is taken as it
\* is, and only without one is a free number sought.
InstNew(s, d, id) ==
    LET i == made + 1
    IN  /\ MayCall
        /\ s \in sessions
        /\ d \in pd_list
        /\ made < MaxInsts
        /\ made' = i
        /\ live' = live \cup {i}
        /\ decoder' = [decoder EXCEPT ![i] = d]
        /\ inst_id' = [inst_id EXCEPT ![i] =
                          IF id = NoId THEN FirstFreeId(s, d) ELSE id]
        /\ given' = IF id = NoId THEN given ELSE given \cup {i}
        /\ di_list' = [di_list EXCEPT ![s] = @ \cup {i}]
        /\ bad' = (bad \/ d \in Closed
                       \/ (id = NoId /\ ~(Searched(s) \subseteq live)))
        /\ UNCHANGED <<up, imported, pd_list, c_dll_registry, sessions,
                       next_di, twice, exiting, claimed>>

\* What reaches everything that is stacked on its members.
ClosedUnderStack(C) == \A j \in C : next_di[j] \subseteq C

\* The instances of S and what is stacked on them, however deep: the smallest
\* set of instances that holds S and what its members feed.
StackedOn(S) ==
    {i \in Insts : \A C \in SUBSET Insts :
                       S \subseteq C /\ ClosedUnderStack(C) => i \in C}

Tree(s) == StackedOn(di_list[s])

\* Clients that keep to it put a whole stack on top of an instance of another
\* stack of the session; srd_inst_stack does not look whether they do.
MayStack(s, bottom, top) ==
    \/ top \in di_list[s] /\ bottom \in Tree(s) \ StackedOn({top})
    \/ StacksAnywhere /\ {bottom, top} \subseteq live

\* srd_inst_stack: a Python decoder cannot go on top of a C decoder.  An
\* instance that the session does not list is stacked all the same, again or
\* in a circle.
StackBug(s, bottom, top) ==
    /\ MayCall
    /\ Stacks /\ MayStack(s, bottom, top)
    /\ s \in sessions
    /\ decoder[bottom] \in CDecoders => decoder[top] \in CDecoders
    /\ next_di' = [next_di EXCEPT ![bottom] = @ \cup {top}]
    /\ bad' = (bad \/ bottom \notin live \/ top \notin live)
    /\ UNCHANGED <<up, imported, pd_list, c_dll_registry, sessions, di_list, twice,
                   decoder, inst_id, given, made, live, exiting, claimed>>

Stack(s, bottom, top) ==
    /\ MayCall
    /\ Stacks /\ MayStack(s, bottom, top)
    /\ s \in sessions
    /\ decoder[bottom] \in CDecoders => decoder[top] \in CDecoders
    /\ di_list' = [di_list EXCEPT ![s] = @ \ {top}]
    /\ next_di' = [next_di EXCEPT ![bottom] = @ \cup {top}]
    /\ twice' = IF top \in next_di[bottom] THEN twice \cup {<<bottom, top>>}
                                           ELSE twice
    /\ bad' = (bad \/ bottom \notin live \/ top \notin live)
    /\ UNCHANGED <<up, imported, pd_list, c_dll_registry, sessions, decoder,
                   inst_id, given, made, live, exiting, claimed>>

-----------------------------------------------------------------------------
(* srd_init and srd_exit.                                                  *)

SrdInit ==
    /\ ~up /\ exiting = "no" /\ ~bad
    /\ up' = TRUE
    /\ UNCHANGED <<imported, pd_list, c_dll_registry, sessions, di_list,
                   instances, live, exiting, bad, claimed>>

\* First the sessions are destroyed ...
ExitSessionsBug ==
    /\ MayCall
    /\ exiting' = "libraries"
    /\ UNCHANGED <<up, imported, pd_list, c_dll_registry, sessions, di_list,
                   instances, live, bad, claimed>>

ExitSessions ==
    /\ MayCall
    /\ Destroy(sessions)
    /\ exiting' = "decoders"
    /\ UNCHANGED <<up, imported, pd_list, c_dll_registry, instances, claimed>>

\* ... then the decoders are unloaded ...
ExitDecoders ==
    /\ exiting = "decoders"
    /\ UnloadEach
    /\ exiting' = "libraries"
    /\ UNCHANGED <<up, imported, c_dll_registry, sessions, di_list, instances>>

\* ... then the C libraries are closed and Python is finalized.
ExitLibraries ==
    /\ exiting = "libraries"
    /\ c_dll_registry' = [d \in CDecoders |-> "absent"]
    /\ imported' = {}
    /\ up' = FALSE
    /\ exiting' = "no"
    /\ UNCHANGED <<pd_list, sessions, di_list, instances, live, bad, claimed>>

Next ==
    \/ SrdInit \/ ExitSessions \/ ExitDecoders \/ ExitLibraries
    \/ \E d \in PyDecoders : Load(d)
    \/ \E d \in CDecoders : CLoad(d) \/ CUnload(d)
    \/ \E d \in Decoders : Unload(d)
    \/ UnloadAll
    \/ \E s \in Sessions :
          \/ SessionNew(s)
          \/ SessionDestroy(s)
          \/ \E d \in Decoders, id \in GivenIds \cup {NoId} : InstNew(s, d, id)
          \/ \E bottom, top \in Insts : Stack(s, bottom, top)

Spec == Init /\ [][Next]_vars

-----------------------------------------------------------------------------
(* Properties.                                                             *)

\* No operation uses a freed instance or calls into a closed C library.
SafeMemory == ~bad

\* What a session reaches, at any depth, is alive, its decoder is listed and
\* the code of a C decoder is there: sessions can be run at any time.
StacksUsable ==
    exiting = "no" => \A s \in sessions : \A i \in Tree(s) :
        i \in live /\ decoder[i] \in pd_list /\ decoder[i] \notin Closed

\* An instance gets its input once, either from the frontend or from one
\* instance below it, and belongs to one session: terminate_reset, end and
\* find_by_obj, which walk the stacks, meet it exactly once.
OneFeed ==
    /\ twice = {}
    /\ \A i \in live :
           Cardinality({s \in sessions : i \in di_list[s]})
               + Cardinality({j \in live : i \in next_di[j]}) <= 1

\* A number that srd_inst_new chose is new where srd_inst_find_by_id looks, the
\* lower two layers of every stack: an instance there has the ID of an older one
\* only if the client gave it that ID.
UniqueIn(S) == \A i, j \in S : i < j /\ inst_id[i] = inst_id[j] => j \in given

UniqueFound == \A s \in sessions : UniqueIn(Searched(s))

\* Destroying sessions releases every instance that is not stacked on another.
UnstackedReleased ==
    live \ UNION {next_di[i] : i \in Insts}
        \subseteq UNION {di_list[s] : s \in sessions}

-----------------------------------------------------------------------------
(* What comments promise beyond that.  The code keeps the first two only   *)
(* for clients that do not stack instances, the third for clients that     *)
(* never load a decoder again.                                             *)

\* srd_inst_new promises a unique instance ID when the client gives none.
UniqueIds == \A s \in sessions : UniqueIn(Tree(s))

\* srd_session_destroy promises that all instances are released.
AllReleased == sessions = {} => live = {}

\* After a load that returned SRD_OK the decoder is available.
LoadLists == claimed \subseteq pd_list
=============================================================================
