--------------------------- MODULE MCStorageAudit ---------------------------
(* Bounded instance of StorageAudit: a task spec that refers to a test and *)
(* may also be bound as a plain artifact, and the test bound where a       *)
(* structured artifact is expected, which cannot be parsed.                *)
EXTENDS StorageAudit, TLC

MCDigests == {"task", "test"}
MCChildren == ("task" :> {"test"}) @@ ("test" :> {})
MCDefect == ("task" :> "none") @@ ("test" :> "malformed")
MCBindings == {<<"structured", "task">>, <<"plain", "task">>, <<"structured", "test">>}

=============================================================================
