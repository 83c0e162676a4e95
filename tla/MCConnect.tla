----------------------------- MODULE MCConnect -----------------------------
(* Connect with wishes that differ from the default in one or two fields, and *)
(* with kernels on both sides of every version at which negotiate branches.   *)
EXTENDS Connect

MCOther == {"ATOMIC_O_TRUNC", "EXPORT_SUPPORT"}

Default == [major |-> 7, minor |-> 44, max_readahead |-> 2147483647, max_background |-> 0,
            congestion_threshold |-> 0, max_write |-> MIN_MAX_WRITE, time_gran |-> 1,
            max_pages |-> 32, max_stack_depth |-> 0, request_timeout |-> 0,
            flags |-> {"ATOMIC_O_TRUNC"}]

MCWishes ==
    {Default}
    \cup {[Default EXCEPT !.max_background = b, !.congestion_threshold = c] :
            b \in {4, 21846, 65535}, c \in {0, 3, 9}}
    \cup {[Default EXCEPT !.max_write = w] : w \in {0, 8113, 32 * 4096 + 1, 256 * 4096 + 1}}
    \cup {[Default EXCEPT !.time_gran = g] : g \in {0, 9, 10, 1500, 2000000000}}
    \cup {[Default EXCEPT !.max_pages = p, !.max_readahead = 100] : p \in {0, 1, 300}}
    \cup {[Default EXCEPT !.max_stack_depth = d, !.flags = {"PASSTHROUGH"} \cup f] :
            d \in {1, 5}, f \in SUBSET {"WRITEBACK_CACHE", "EXPORT_SUPPORT"}}

Minors == {0, 3, 6, 12, 13, 22, 23, 27, 28, 35, 36, 39, 40, 44, 45}
OfferedFlags == {{}, {"ATOMIC_O_TRUNC", "SPLICE_READ"}, {"MAX_PAGES", "WRITEBACK_CACHE"},
                 {"MAX_PAGES", "INIT_EXT", "PASSTHROUGH"}, Flags}

MCOffers ==
    [major : {7}, minor : Minors, flags : OfferedFlags, max_readahead : {131072}]
    \cup [major : {6, 8}, minor : {1, 40}, flags : {{}}, max_readahead : {0}]
============================================================================
