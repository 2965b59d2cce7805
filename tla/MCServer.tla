------------------------------ MODULE MCServer ------------------------------
(* Small instances of Server for TLC. *)
EXTENDS Server

\* The statements of db/migrations/001 to 011, without the INSERT that ends each.
cr == "create"
al == "alter"
Files ==
    << <<cr, cr>>, <<cr, cr, cr, cr, cr, cr, cr, cr, cr>>, <<al, al, al, al, al, al>>, <<al>>,
       <<al, al, al, al, al>>, <<cr, cr, cr>>, <<al, cr>>, <<al, cr>>, <<cr, cr>>, <<al>>, <<al>> >>

=============================================================================
