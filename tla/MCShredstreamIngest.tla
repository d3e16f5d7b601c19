------------------------ MODULE MCShredstreamIngest ------------------------
(* Small instances of ShredstreamIngest for TLC. *)
EXTENDS ShredstreamIngest

CONSTANT p1

I(kind, pool) == [kind |-> kind, pool |-> pool]

MCPools == {p1}

\* A create; a swap of the created pool, which resolves only after it, and a
\* LaunchLab create.
MCLogPayloads ==
    {<<I("create", p1)>>,
     <<I("pool_swap", p1), I("mintless_create", NoPool)>>}

\* A swap that names its mint, then an instruction of another program.
MCTransactions == {<<I("swap", NoPool), I("untracked", NoPool)>>}

\* For the liveness runs: one payload of each sort, and a transaction that
\* creates a pool and swaps in it.
LiveLogPayloads == {<<I("other", NoPool)>>}
LiveTransactions ==
    {<<I("create", p1), I("pool_swap", p1)>>, <<I("untracked", NoPool)>>}
=============================================================================
