------------------------------ MODULE PngToSvg ------------------------------
(***************************************************************************)
(* docs/diagrams/convert_png_to_svg.py: for each name of files_to_convert, *)
(* in order, wrap images/architecture/<name>.png into <name>.svg as a      *)
(* base64 data URI, with the width and height read from the IHDR chunk.    *)
(*                                                                         *)
(* File contents are byte sequences.  The conversion is modelled by what   *)
(* it does: int.from_bytes over the Python slice, base64 over the bytes.   *)
(* The file system may fail any call (permissions, a full disk): reading   *)
(* the PNG, opening the SVG for writing, or writing it after open('w')     *)
(* has truncated it.  Those calls sit inside the loop's try; the existence *)
(* check png_path.exists() does not, and when it raises (a PermissionError *)
(* on the directory) the exception ends the script.                        *)
(***************************************************************************)
EXTENDS Integers, Sequences, SequencesExt

CONSTANTS
    Files,      \* files_to_convert: a sequence of distinct names
    Contents,   \* byte sequences a <name>.png may hold
    PngDims,    \* the <<width, height>> of the well-formed PNGs among them
    NONE,       \* model value: no such file
    OLD,        \* model value: an SVG left by an earlier run
    PARTIAL     \* model value: an SVG truncated and partly written

Names == Range(Files)

-----------------------------------------------------------------------------
(* Conversions.                                                            *)

\* int.from_bytes(b, 'big'): 0 for the empty slice.
RECURSIVE FromBytesBig(_)
FromBytesBig(b) == IF b = <<>> THEN 0 ELSE FromBytesBig(Front(b)) * 256 + Last(b)

\* The Python slice d[lo:hi], which clamps to the length of d.
Slice(d, lo, hi) == SubSeq(d, lo + 1, IF hi < Len(d) THEN hi ELSE Len(d))

\* The base64 alphabet: sextet k is written as character code B64Char(k).
B64Char(k) ==
    CASE k < 26 -> 65 + k        \* A-Z
      [] k < 52 -> 71 + k        \* a-z
      [] k < 62 -> k - 4         \* 0-9
      [] k = 62 -> 43            \* +
      [] OTHER  -> 47            \* /

PAD == 61                        \* =

\* base64.b64encode(d).decode('utf-8'): the character codes of the text.
RECURSIVE B64Encode(_)
B64Encode(d) ==
    IF d = <<>> THEN <<>>
    ELSE LET g == Slice(d, 0, 3)
             n == FromBytesBig(g) * 256 ^ (3 - Len(g))   \* the 24-bit group
         IN [k \in 1 .. 4 |-> IF k <= Len(g) + 1 THEN B64Char((n \div 64 ^ (4 - k)) % 64)
                                                ELSE PAD]
            \o B64Encode(Slice(d, 3, Len(d)))

B64Text == {B64Char(k) : k \in 0 .. 63} \cup {PAD}

\* Mutant: dimensions read one byte late, from png_data[17:21] and [21:25].
DimsOneLate(d) == [width  |-> FromBytesBig(Slice(d, 17, 21)),
                   height |-> FromBytesBig(Slice(d, 21, 25))]

\* The dimensions png_to_svg_wrapper reads, with no check of the signature
\* or of the length of the file.
Dims(d) == [width  |-> FromBytesBig(Slice(d, 16, 20)),
            height |-> FromBytesBig(Slice(d, 20, 24))]

\* Mutant: the base64 bytes are formatted without .decode('utf-8'), so
\* the f-string embeds their repr, b'...'.
WrapperUndecoded(d) ==
    [width |-> Dims(d).width, height |-> Dims(d).height,
     data  |-> <<98, 39>> \o B64Encode(d) \o <<39>>]

\* The SVG written for PNG bytes d: its size attributes and its data URI.
Wrapper(d) == [width |-> Dims(d).width, height |-> Dims(d).height, data |-> B64Encode(d)]

-----------------------------------------------------------------------------
(* State.                                                                  *)

VARIABLES
    png,        \* png[f]: the bytes of <f>.png, or NONE
    svg,        \* svg[f]: <f>.svg as a Wrapper record, OLD, PARTIAL or NONE
    svgBefore,  \* history: svg as it was when the script started
    idx,        \* the index into files_to_convert of the loop
    out,        \* the report lines printed so far, as <<name, kind>>
    done,       \* "Conversion complete!" printed and the script ended
    raised      \* an exception escaped main and ended the script

vars == <<png, svg, svgBefore, idx, out, done, raised>>

\* PNG limits width and height to 2^31 - 1.
MaxUInt31 == 2147483647

LineKinds == {"missing", "converted", "dims", "error"}

TypeOK ==
    /\ png \in [Names -> Contents \cup {NONE}]
    /\ \A f \in Names :
          \/ svg[f] \in {NONE, OLD, PARTIAL}
          \/ /\ svg[f].width \in 0 .. MaxUInt31
             /\ svg[f].height \in 0 .. MaxUInt31
             /\ svg[f].data \in Seq(B64Text)
    /\ idx \in 1 .. Len(Files) + 1
    /\ out \in Seq(Names \X LineKinds)
    /\ done \in BOOLEAN
    /\ raised \in BOOLEAN

-----------------------------------------------------------------------------
(* The loop of main over files_to_convert.                                 *)

Init ==
    /\ png \in [Names -> Contents \cup {NONE}]
    /\ svg \in {[f \in Names |-> NONE], [f \in Names |-> OLD]}
    /\ svgBefore = svg
    /\ idx = 1
    /\ out = <<>>
    /\ done = FALSE
    /\ raised = FALSE

\* The file this iteration handles.
Current == Files[idx]

\* The loop is at an iteration.
Looping == ~done /\ ~raised /\ idx <= Len(Files)

\* The iteration ends having printed `lines`.
Advance(lines) ==
    /\ out' = out \o lines
    /\ idx' = idx + 1

\* png_path.exists() is false: print "not found" and continue.
NotFound ==
    /\ Looping
    /\ png[Current] = NONE
    /\ Advance(<<<<Current, "missing">>>>)
    /\ UNCHANGED <<png, svg, svgBefore, done, raised>>

\* png_path.exists() raises an OSError other than "no such file"; it is
\* outside the try, so the exception propagates out of main.
ExistsRaises ==
    /\ Looping
    /\ raised' = TRUE
    /\ UNCHANGED <<png, svg, svgBefore, idx, out, done>>

\* open(png_path, 'rb') or open(svg_path, 'w') raises before anything is
\* written: the except clause prints the error and the loop continues.
RaiseBeforeWrite ==
    /\ Looping
    /\ png[Current] # NONE
    /\ Advance(<<<<Current, "error">>>>)
    /\ UNCHANGED <<png, svg, svgBefore, done, raised>>

\* open(svg_path, 'w') truncated the SVG, then f.write raises.
WriteRaises ==
    /\ Looping
    /\ png[Current] # NONE
    /\ svg' = [svg EXCEPT ![Current] = PARTIAL]
    /\ Advance(<<<<Current, "error">>>>)
    /\ UNCHANGED <<png, svgBefore, done, raised>>

\* png_to_svg_wrapper(png_path, svg_path) opens the PNG with 'rb' and
\* reads all of it.
ReadPng(f) == png[f]

\* The SVG is written and the check mark printed; the size ratio then
\* divides by png_size, which raises ZeroDivisionError for an empty PNG,
\* else main prints the dimensions.
Convert ==
    /\ Looping
    /\ png[Current] # NONE
    /\ svg' = [svg EXCEPT ![Current] = Wrapper(ReadPng(Current))]
    /\ Advance(<<<<Current, "converted">>,
                 <<Current, IF ReadPng(Current) = <<>> THEN "error" ELSE "dims">>>>)
    /\ UNCHANGED <<png, svgBefore, done, raised>>

Finish ==
    /\ ~done /\ ~raised /\ idx = Len(Files) + 1
    /\ done' = TRUE
    /\ UNCHANGED <<png, svg, svgBefore, idx, out, raised>>

Next == NotFound \/ ExistsRaises \/ RaiseBeforeWrite \/ WriteRaises \/ Convert \/ Finish

Spec == Init /\ [][Next]_vars

-----------------------------------------------------------------------------
(* Reference.                                                              *)

\* The decoding of base64 text, defined group by group and independently
\* of B64Encode: four characters carry three bytes, less one per '='.
Sextet(c) == CHOOSE k \in 0 .. 63 : B64Char(k) = c

RECURSIVE B64Decode(_)
B64Decode(s) ==
    IF Len(s) < 4 THEN <<>>
    ELSE LET q == SubSeq(s, 1, 4)
             m == Len(SelectSeq(q, LAMBDA x : x # PAD)) - 1
             v(k) == IF q[k] = PAD THEN 0 ELSE Sextet(q[k])
             n == ((v(1) * 64 + v(2)) * 64 + v(3)) * 64 + v(4)
         IN [j \in 1 .. m |-> (n \div 256 ^ (3 - j)) % 256] \o B64Decode(SubSeq(s, 5, Len(s)))

\* A well-formed PNG: the eight signature bytes, then the IHDR chunk
\* (length 13, type "IHDR") with its width and height as 4-byte integers.
Signature == <<137, 80, 78, 71, 13, 10, 26, 10>>

BE4(x) == [k \in 1 .. 4 |-> (x \div 256 ^ (4 - k)) % 256]

PngOf(w, h) == Signature \o <<0, 0, 0, 13, 73, 72, 68, 82>> \o BE4(w) \o BE4(h) \o <<8, 6, 0, 0, 0>>

IsPngOf(d, w, h) == Len(d) >= 29 /\ SubSeq(d, 1, 29) = PngOf(w, h)

\* Files named in `out` with a line of kind k.
Reported(k) == {out[j][1] : j \in {j \in DOMAIN out : out[j][2] = k}}

-----------------------------------------------------------------------------
(* Properties.                                                             *)

\* Every SVG the script writes embeds exactly the bytes of its PNG (its data
\* URI decodes to them) and, for a well-formed PNG of width w and height h,
\* carries width w and height h: the header slices of png_to_svg_wrapper
\* read the IHDR fields.
SvgWrapsPng ==
    \A f \in Names :
        svg[f] \notin {NONE, OLD, PARTIAL} =>
            /\ B64Decode(svg[f].data) = png[f]
            /\ \A <<w, h>> \in PngDims :
                  IsPngOf(png[f], w, h) => svg[f].width = w /\ svg[f].height = h

ErrorLeavesSvg ==
    \A f \in Reported("error") : svg[f] = svgBefore[f]

=============================================================================
