\* The decoders with an optional channel in the slot of the first channel.
CONSTANT
    Loadable <- SharedSlot
SPECIFICATION Spec
INVARIANT ChannelsWired
