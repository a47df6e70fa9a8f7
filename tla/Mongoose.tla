------------------------------ MODULE Mongoose ------------------------------
(***************************************************************************)
(* The part of the Mongoose library (a dependency, not part of this        *)
(* repository) that the services rely on.  A handler reads a document into *)
(* memory (findById, findOne), assigns some of its paths and later calls   *)
(* save().  save() writes only the paths whose value the handler changed;  *)
(* the other paths keep what the database holds by then, and no condition  *)
(* on the read value accompanies the write.                                *)
(***************************************************************************)

\* The value a path of the stored document has after save(), when the
\* handler read the value "read" and left the value "edited" in memory.
Modified(stored, read, edited) == IF edited = read THEN stored ELSE edited

=============================================================================
