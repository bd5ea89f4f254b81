CONSTANT Null = Null
SPECIFICATION Spec
INVARIANTS OrListing IfElseListing ExprListing BranchListing Grouped AssertListing FormatListing ApplyListing BindOnce ApplyFrameProtocol WordListing
PROPERTY DriveEnds
