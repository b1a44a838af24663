\* Two memos and a tag; titles that differ in case alone, an empty one, and a
\* name with a zero character; to scale, a timestamp of
\* 2^63 - 1 and a later one that a REAL's text rounds up; a color of more than 24 bits.
SPECIFICATION Spec
CONSTANTS
    Titles = {"", "a", "A"}
    Descriptions = {"b"}
    Names = {"x", "cut"}
    CutTexts = {"cut"}
    Alike <- MCAlike
    Timestamps = {922, 995}
    ColorValues = {16777217}
    MemoIds = {1, 2}
    TagIds = {1}
    MaxInteger = 922
    MaxUnsigned = 1844
    HalfUnit = 5
 
PROPERTY RewritingChangesNothing
