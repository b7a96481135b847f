----------------------------- MODULE MCDfuWrite -----------------------------
EXTENDS DfuWrite

(* Sectors of three sizes, like the F411's 16, 64 and 128 KB.                *)
MCSectorSizes == <<1, 2, 4>>
=============================================================================
