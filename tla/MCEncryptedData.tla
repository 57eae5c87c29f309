-------------------------- MODULE MCEncryptedData --------------------------
(***************************************************************************)
(* Plaintexts of none, one, three and five bytes in chunks of two or four: *)
(* up to three chunks, a short last one, an empty message, and a byte      *)
(* count that wraps around Int32Range.                                     *)
(***************************************************************************)
EXTENDS EncryptedData
============================================================================
