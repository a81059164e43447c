---------------------------- MODULE PicturePath ----------------------------
(***************************************************************************)
(* The way of a profile picture: its bytes are encoded in base64 by the    *)
(* client that sends it, decoded by the one that shows it                  *)
(* (common/utility/base64/Base64.cpp), and put into an image with its      *)
(* smaller levels (Renderer.cpp), whose layouts the GPU does not check.    *)
(***************************************************************************)
EXTENDS Integers, Sequences

CONSTANTS
    Bytes,      \* bytes of the pixels
    MaxBytes,   \* bound: how many
    IntWidth,   \* width of int
    Widths, Heights     \* of the image: 64 and 64 in the code

ASSUME PictureAssumption ==
    /\ Bytes \subseteq 0 .. 255
    /\ MaxBytes \in Nat
    /\ IntWidth \in Nat /\ IntWidth >= 14
    /\ Widths \subseteq Nat \ {0} /\ Heights \subseteq Nat \ {0}

VARIABLES
    step,       \* which step comes next
    data,       \* ghost: the pixels
    read,       \* encode, decode: how much of the input was read
    val, valb,  \* encode, decode: the bits kept, and how many, less 6 or 8
    text,       \* encode: out, as numbers of s_Chars and Pad
    pixels,     \* decode: out
    width, height,      \* s_ImageWidth, s_ImageHeight
    level,      \* generateProfilePictureMipMaps: i
    mipWidth, mipHeight,
    layout,     \* the layout each level of the image is in
    filled,     \* ghost: <<width, height>> that each level was filled with
    fault       \* ghost: a command met a level in another layout

codeVars == <<data, read, val, valb, text, pixels>>
imageVars == <<width, height, level, mipWidth, mipHeight, layout, filled, fault>>
pictureVars == <<step, codeVars, imageVars>>

Pad == 64
Chars == 0 .. 63

\* s_MipLevels: floor(log2(max(width, height))) + 1
MipLevels ==
    LET longer == IF width > height THEN width ELSE height
    IN  CHOOSE n \in 1 .. longer : 2 ^ (n - 1) <= longer /\ longer < 2 ^ n
Levels == 0 .. MipLevels - 1
NotFilled == <<0, 0>>

PictureTypeOK ==
    /\ step \in {"encode", "decode", "transition", "copy", "to_source", "blit",
                 "to_shader", "last", "done"}
    /\ data \in Seq(Bytes)
    /\ read \in Nat
    /\ val \in 0 .. 2 ^ IntWidth - 1
    /\ valb \in -8 .. 7
    /\ text \in Seq(Chars \cup {Pad})
    /\ pixels \in Seq(0 .. 255)
    /\ width \in Widths /\ height \in Heights
    /\ level \in 0 .. MipLevels
    /\ mipWidth \in 1 .. width /\ mipHeight \in 1 .. height
    /\ layout \in [Levels -> {"undefined", "transfer_dst", "transfer_src", "shader_read"}]
    /\ filled \in [Levels -> (0 .. width) \X (0 .. height)]
    /\ fault \in BOOLEAN

PictureInit ==
    /\ step = "encode"
    /\ \E n \in 0 .. MaxBytes : data \in [1 .. n -> Bytes]
    /\ read = 0
    /\ val = 0 /\ valb = -6
    /\ text = <<>>
    /\ pixels = <<>>
    /\ width \in Widths /\ height \in Heights
    /\ level = 0
    /\ mipWidth = width /\ mipHeight = height
    /\ layout = [l \in Levels |-> "undefined"]
    /\ filled = [l \in Levels |-> NotFilled]
    /\ fault = FALSE

-----------------------------------------------------------------------------
(* Base64.                                                                 *)

\* An int keeps its lowest bits.
Shifted(number, bits) == (number * 2 ^ bits) % 2 ^ IntWidth
\* (number >> bits) & (2 ^ size - 1)
Field(number, bits, size) == (number \div 2 ^ bits) % 2 ^ size

\* One round of the loop of encode: its inner loop takes six bits at a time.
EncodeByte ==
    /\ step = "encode" /\ read < Len(data)
    /\ read' = read + 1
    /\ val' = Shifted(val, 8) + data[read + 1]
    /\ LET bits == valb + 8
           more == bits \div 6 + 1
       IN  /\ text' = text \o [i \in 1 .. more |-> Field(val', bits - 6 * (i - 1), 6)]
           /\ valb' = bits - 6 * more
    /\ UNCHANGED <<step, data, pixels, imageVars>>

\* Up to a multiple of four characters.
Padded(chars) == chars \o [i \in 1 .. (4 - (Len(chars) % 4)) % 4 |-> Pad]

\* Variant of EncodeEnd: the bits that are left are dropped.
EncodeEndShort ==
    /\ step = "encode" /\ read = Len(data)
    /\ text' = Padded(text)
    /\ step' = "decode"
    /\ read' = 0 /\ val' = 0 /\ valb' = -8
    /\ UNCHANGED <<data, pixels, imageVars>>

\* The bits that are left, and the padding; decode begins.
EncodeEnd ==
    /\ step = "encode" /\ read = Len(data)
    /\ text' = Padded(IF valb > -6
                       THEN Append(text, Field(Shifted(val, 8), valb + 8, 6))
                       ELSE text)
    /\ step' = "decode"
    /\ read' = 0 /\ val' = 0 /\ valb' = -8
    /\ UNCHANGED <<data, pixels, imageVars>>

\* One round of the loop of decode.
DecodeChar ==
    /\ step = "decode" /\ read < Len(text)
    /\ text[read + 1] # Pad
    /\ read' = read + 1
    /\ val' = Shifted(val, 6) + text[read + 1]
    /\ IF valb + 6 >= 0
       THEN /\ pixels' = Append(pixels, Field(val', valb + 6, 8))
            /\ valb' = valb - 2
       ELSE /\ valb' = valb + 6
            /\ UNCHANGED pixels
    /\ UNCHANGED <<step, data, text, imageVars>>

\* The end of the text, or a character that is none of the 64.
DecodeEnd ==
    /\ step = "decode"
    /\ read < Len(text) => text[read + 1] = Pad
    /\ step' = "transition"
    /\ UNCHANGED <<codeVars, imageVars>>

-----------------------------------------------------------------------------
(* createProfilePictureImage: three command buffers, each waited for.      *)

\* An image barrier on one level; the old layout must be the one it is in.
Barrier(l, old, new) ==
    /\ layout' = [layout EXCEPT ![l] = new]
    /\ fault' = (fault \/ layout[l] # old)

\* transitionImageLayout, for all levels; "undefined" matches any layout.
Transition ==
    /\ step = "transition"
    /\ layout' = [l \in Levels |-> "transfer_dst"]
    /\ step' = "copy"
    /\ UNCHANGED <<codeVars, width, height, level, mipWidth, mipHeight, filled, fault>>

\* copyBufferToImage, and the first level of generateProfilePictureMipMaps.
Copy ==
    /\ step = "copy"
    /\ fault' = (fault \/ layout[0] # "transfer_dst")
    /\ filled' = [filled EXCEPT ![0] = <<width, height>>]
    /\ level' = 1
    /\ step' = IF 1 < MipLevels THEN "to_source" ELSE "last"
    /\ UNCHANGED <<codeVars, width, height, mipWidth, mipHeight, layout>>

\* In the loop: the level before becomes the source,
ToSource ==
    /\ step = "to_source"
    /\ Barrier(level - 1, "transfer_dst", "transfer_src")
    /\ step' = "blit"
    /\ UNCHANGED <<codeVars, width, height, level, mipWidth, mipHeight, filled>>

Half(size) == IF size > 1 THEN size \div 2 ELSE 1

\* the level is filled from the whole of it,
Blit ==
    /\ step = "blit"
    /\ fault' = (\/ fault
                 \/ layout[level - 1] # "transfer_src"
                 \/ layout[level] # "transfer_dst"
                 \/ filled[level - 1] # <<mipWidth, mipHeight>>)
    /\ filled' = [filled EXCEPT ![level] = <<Half(mipWidth), Half(mipHeight)>>]
    /\ step' = "to_shader"
    /\ UNCHANGED <<codeVars, width, height, level, mipWidth, mipHeight, layout>>

\* Variant of ToShader: the loop stops a level early.
ToShaderEarly ==
    /\ step = "to_shader"
    /\ Barrier(level - 1, "transfer_src", "shader_read")
    /\ mipWidth' = Half(mipWidth)
    /\ mipHeight' = Half(mipHeight)
    /\ level' = level + 1
    /\ step' = IF level + 2 < MipLevels THEN "to_source" ELSE "last"
    /\ UNCHANGED <<codeVars, width, height, filled>>

\* and the level before is ready for the shader.
ToShader ==
    /\ step = "to_shader"
    /\ Barrier(level - 1, "transfer_src", "shader_read")
    /\ mipWidth' = Half(mipWidth)
    /\ mipHeight' = Half(mipHeight)
    /\ level' = level + 1
    /\ step' = IF level + 1 < MipLevels THEN "to_source" ELSE "last"
    /\ UNCHANGED <<codeVars, width, height, filled>>

\* After the loop: the last level.
Last ==
    /\ step = "last"
    /\ Barrier(MipLevels - 1, "transfer_dst", "shader_read")
    /\ step' = "done"
    /\ UNCHANGED <<codeVars, width, height, level, mipWidth, mipHeight, filled>>

PictureNext ==
    \/ EncodeByte \/ EncodeEnd \/ DecodeChar \/ DecodeEnd
    \/ Transition \/ Copy \/ ToSource \/ Blit \/ ToShader \/ Last

PictureSpec == PictureInit /\ [][PictureNext]_pictureVars

-----------------------------------------------------------------------------
(* Properties.                                                             *)

\* What level l of an image of that size measures.
LevelSize(size, l) == IF size \div 2 ^ l > 0 THEN size \div 2 ^ l ELSE 1

\* A picture of any length comes out of base64 as it went in, and every level
\* of its image, down to one of a single texel, has been filled from the one
\* before and is readable by the shader; no command meets a level in a layout
\* other than the one it names (Base64.cpp, Renderer.cpp:959-1055).
PictureComesOut ==
    /\ ~fault
    /\ step = "transition" => pixels = data
    /\ step = "done" =>
         /\ \A l \in Levels :
              /\ layout[l] = "shader_read"
              /\ filled[l] = <<LevelSize(width, l), LevelSize(height, l)>>
         /\ filled[MipLevels - 1] = <<1, 1>>

=============================================================================
