-------------------------------- MODULE Files --------------------------------
(***************************************************************************)
(* The files the scripts find, write and leave behind when they are        *)
(* killed: a file is not there, is cut short, or holds a value.            *)
(***************************************************************************)
CONSTANTS
    NoFile,     \* a file that does not exist
    Torn        \* a file whose writing was cut short

ASSUME FilesAssumption == NoFile # Torn

\* Whether a file can be read and parsed.
Readable(file) == file \notin {NoFile, Torn}
=============================================================================
