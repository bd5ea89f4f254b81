CONSTANT Null = Null
SPECIFICATION Spec
INVARIANTS TypeOK ImportChainMatchesStack DieListing RootIsContext RootpIffNoParent UnitIsEntryRootUnit AttrListing NoDuplicateName AtnameAgrees
PROPERTIES ProducerEnds
