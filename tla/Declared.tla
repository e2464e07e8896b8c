------------------------------ MODULE Declared ------------------------------
(***************************************************************************)
(* What a C decoder declares to the library (struct srd_c_decoder,         *)
(* libsigrokdecode.h): tables of channels, options, annotation classes and *)
(* rows, the numbers of their entries, and the options its code reads.     *)
(* Names and descriptions shown to the user are left out, ids are kept.    *)
(***************************************************************************)
EXTENDS Integers, Sequences, TLC

\* The numbers a, ..., b as a table of annotation classes.
R(a, b) == [i \in 1 .. b - a + 1 |-> a + i - 1]

\* A table of n annotation labels that the decoder fills in only when it is
\* started; an initialised one is given by its length.
Unnamed(n) == -n

\* The tables of a decoder's file.  A channel is <<id, order>>, a row is
\* <<id, classes, num_ann_classes>>.
Tables(channels, optional, options, labels, rows, inputs, outputs, binary, tags) ==
    [channels |-> channels, optional |-> optional, options |-> options,
     labels |-> labels, rows |-> rows, inputs |-> inputs,
     outputs |-> outputs, binary |-> binary, tags |-> tags]

\* One entry per call of c_opt_int, c_opt_dbl, c_opt_str or c_opt_bool:
\* <<function, option, the default given in the call>>.
Reads(calls) == [i \in 1 .. Len(calls) |->
    [as |-> calls[i][1], id |-> calls[i][2], def |-> calls[i][3]]]

\* The descriptor.  num holds num_channels, num_optional_channels,
\* num_options, num_annotations, num_annotation_rows, num_inputs,
\* num_outputs, num_binary, num_tags; defaults the GVariants that the entry
\* function stores in the options, as <<type, value>>.
Descriptor(id, tables, num, defaults, reads) ==
    [id |-> id, t |-> tables, num |-> num, defaults |-> defaults,
     reads |-> reads]
=============================================================================
