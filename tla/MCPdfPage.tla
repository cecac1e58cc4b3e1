------------------------------ MODULE MCPdfPage ------------------------------
(* Small instances of PdfPage. *)
EXTENDS PdfPage
=============================================================================
