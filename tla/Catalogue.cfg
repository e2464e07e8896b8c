\* Every decoder whose declarations agree with each other and with its code.
CONSTANT
    Loadable <- Consistent
SPECIFICATION Spec
INVARIANTS Validated ChannelsWired OptionsHonoured
