----------------------------- MODULE MC_Executor -----------------------------
EXTENDS Executor

\* Manifests of one and two bytes, within one upload buffer of two bytes.
MCSmallManifests == {<<"a">>, <<"a", "b">>}

\* A manifest of three bytes, larger than the upload buffer.
MCLargeManifests == {<<"a", "b", "c">>}

\* The operations that pass the dispatcher's error back, and ds3_bulk.
MCPropagatingOps == {"get_object", "put_object", "delete_object",
                     "put_bucket", "delete_bucket", "bulk"}

\* The operations that parse the body whatever the exchange did.
MCDecodingOps == {"get_service", "get_bucket"}
=============================================================================
