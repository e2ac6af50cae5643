------------------------------ MODULE MCClipboard ------------------------------
(* Small instances of Clipboard: one or two programs, two texts, one image.  *)
EXTENDS Clipboard

CONSTANTS ed, gimp, hello, bye, photo
=============================================================================
