------------------------------- MODULE Tools -------------------------------
(***************************************************************************)
(* Colors (src/model/Color.hpp) and their conversions (src/db/Tools.cpp).  *)
(***************************************************************************)
EXTENDS Integers

Byte == 0..255

\* model::Color; the program makes them with IntToColor alone, so that each component
\* is a byte.
Color == [red : Byte, green : Byte, blue : Byte]

\* Of bytes, shifted to places of their own, the bitwise OR is the sum.
ColorToInt(color) == color.red * 65536 + color.green * 256 + color.blue

\* & 0xFF is % 256 and >> 8 is \div 256, of negative ints too (two's complement,
\* arithmetic shift).
IntToColor(numericColor) ==
    [red   |-> ((numericColor \div 256) \div 256) % 256,
     green |-> (numericColor \div 256) % 256,
     blue  |-> numericColor % 256]

=============================================================================
