--------------------------- MODULE MCCacheHandler ---------------------------
(***************************************************************************)
(* A small instance of CacheHandler for TLC: two installations on drive    *)
(* "C" and one on "D", and an archive with the two files the handler looks *)
(* for, of which the journal shows other names.                            *)
(***************************************************************************)
EXTENDS CacheHandler, TLC

CONSTANTS archive, v1, v2

Manifest == "TemplateManifest.xml"
Spells == "Locales/English/Spells.lang"

Drives == [p \in Installs |-> IF p = Override THEN "D" ELSE "C"]
ReadNames == {"Te", "ma"}
Languages == {Spells}
HeldNames == [a \in Files |-> {Manifest, Spells}]
\* Behind the first name the journal is read out of step: any two bytes. The
\* reading of the broken one fails there.
NamesRead == [a \in Files |-> IF a = "broken" THEN {"Te"} ELSE {"Te", "ma"}]

FolderTexts == [f \in CacheFiles |->
  CASE f = "wad_cache.data" -> {None, "empty", "no_json", "misshapen", v1}
    [] f = "template_ids.json" -> {None, "empty", v1, v2}]

\* The id, or not, before a zlib stream; too short, without ids and with some.
TemplateData == [bytes : {<<66, 73, 78, 100, 120>>, <<120, 218, 66, 73, 78>>},
                 text : BOOLEAN, size : {12, 36, 60}]
=============================================================================
