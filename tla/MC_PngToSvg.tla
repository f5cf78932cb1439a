---------------------------- MODULE MC_PngToSvg ----------------------------
(***************************************************************************)
(* The four names of files_to_convert, each PNG absent, empty, truncated   *)
(* inside the width field, or well formed.                                 *)
(***************************************************************************)
EXTENDS PngToSvg

CONSTANTS cluster, pipeline, multi, journal

MC_Files == <<cluster, pipeline, multi, journal>>

MC_PngDims == {<<1920, 70000>>}

MC_Contents ==
    {<<>>, SubSeq(PngOf(1920, 70000), 1, 18)} \cup {PngOf(d[1], d[2]) : d \in MC_PngDims}

=============================================================================
