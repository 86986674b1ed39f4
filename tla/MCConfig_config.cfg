\* Configuration operations against their reference definitions.
CONSTANTS
    Chars <- MCChars
    Dot = "."
    MaxLen = 4
    Names = {"n1", "n2"}
    Parsers <- MCParsers
    Ports = {0, 1}
    MaxListeners = 2
    Fields <- MCFields
SPECIFICATION Spec
INVARIANT GetParserIsFinalSegment
INVARIANT GetListenerIsFirstMatch
INVARIANT IsValidRequiresFields
