----------------------------- MODULE CaseTable -----------------------------
(***************************************************************************)
(* The harness's case table (tools/sos_runner.py, TEST_CASES), one record  *)
(* per case:                                                               *)
(*   name      the case, and the stem of every file it leaves              *)
(*   root      the Blade package of its root server, or NoPkg              *)
(*   children  the packages of its child images, in row order              *)
(*   expects   how many lines of output it asserts                         *)
(*   kernel    how many of them the kernel itself prints ("SOS: ...")      *)
(*   words     the placeholders those lines are written with               *)
(*   pool, device   the boot regions it asks for beside its children's     *)
(*   says      the number of boot regions its lines assert, 0 for none     *)
(*   typed     it has serial input                                         *)
(*   exit      how it must end: "clean", "fails", or with a status of its  *)
(*             own, "fault" (5) or "arena" (65)                            *)
(*   arches    the profiles it applies to                                  *)
(*   tier      the protection tier it needs, or AnyTier                    *)
(*   strips    it is matched without the kernel's own lines                *)
(* The wording of the expected lines is left out.                          *)
(***************************************************************************)
EXTENDS Naturals, Sequences, SequencesExt

NoPkg == "none"
AnyTier == "any"

Everywhere == {"riscv32", "arm64", "riscv32-flat"}
RiscvOnly == {"riscv32", "riscv32-flat"}
ArmOnly == {"arm64"}

\* A case with the defaults of the table's optional keys.
Boot(name, root, children, expects, kernel, words) ==
    [name |-> name, root |-> root, children |-> children, expects |-> expects,
     kernel |-> kernel, words |-> words, pool |-> FALSE, device |-> FALSE, says |-> 0,
     typed |-> FALSE, exit |-> "clean", arches |-> Everywhere, tier |-> AnyTier,
     strips |-> FALSE]

-----------------------------------------------------------------------------
PanicCases ==
    <<[Boot("no_root_image", NoPkg, <<>>, 2, 0, {"banner"}) EXCEPT !.exit = "fails"],
      [Boot("trap_fault", NoPkg, <<>>, 0, 0, {}) EXCEPT !.exit = "fails"],
      [Boot("panic_seam", NoPkg, <<>>, 1, 0, {}) EXCEPT !.exit = "fails"],
      [Boot("panic_from_check", NoPkg, <<>>, 3, 0, {}) EXCEPT !.exit = "fails"],
      [Boot("task_dump", NoPkg, <<>>, 7, 0, {}) EXCEPT !.exit = "fails"],
      [Boot("task_dump_empty", NoPkg, <<>>, 2, 0, {}) EXCEPT !.exit = "fails"],
      Boot("umode_syscall", NoPkg, <<>>, 2, 0, {}),
      [Boot("umode_access_fault", NoPkg, <<>>, 1, 0, {}) EXCEPT !.exit = "fails",
          !.tier = "isolated"],
      [Boot("umode_bad_calls", NoPkg, <<>>, 4, 2, {"one", "three"}) EXCEPT
          !.exit = "fault"],
      Boot("timer_tick", NoPkg, <<>>, 4, 2, {"one", "two"})>>

BootImageCases ==
    <<Boot("timer_masked_in_kernel", NoPkg, <<>>, 4, 1, {"one", "zero"}),
      Boot("external_irq", NoPkg, <<>>, 3, 1, {"irq_line"}),
      Boot("preempt_tick", NoPkg, <<>>, 4, 1, {"one"}),
      Boot("preempt_extirq", NoPkg, <<>>, 5, 1, {"irq_line"}),
      Boot("root_image_load", NoPkg, <<>>, 3, 0, {"banner", "entry", "one", "prio"}),
      [Boot("root_image_bad_magic", NoPkg, <<>>, 1, 0, {}) EXCEPT !.exit = "fails"],
      [Boot("root_image_bad_version", NoPkg, <<>>, 1, 0, {}) EXCEPT !.exit = "fails"],
      [Boot("root_image_wrong_arch", NoPkg, <<>>, 1, 0, {}) EXCEPT !.exit = "fails"],
      [Boot("root_image_bad_segment", NoPkg, <<>>, 1, 0, {}) EXCEPT !.exit = "fails"]>>

ThreadCases ==
    <<Boot("root_server_boot", "root", <<>>, 5, 0, {"banner", "prio", "two"}),
      Boot("thread_basics", "thread-basics", <<>>, 5, 1, {"banner", "ten", "three",
          "zero"}),
      [Boot("thread_preempt", "thread-preempt", <<>>, 5, 0, {}) EXCEPT !.strips = TRUE],
      [Boot("umode_bad_handle", NoPkg, <<>>, 3, 2, {"one", "three"}) EXCEPT
          !.exit = "fault"]>>

EventCases ==
    <<Boot("event_basics", "event-basics", <<>>, 8, 1, {"banner", "eight", "one",
          "three"}),
      Boot("event_wake", "event-wake", <<>>, 5, 0, {"banner"}),
      [Boot("umode_not_waitable", NoPkg, <<>>, 3, 2, {"four", "one", "zero"}) EXCEPT
          !.exit = "fault"],
      [Boot("event_dupkey", "event-dupkey", <<>>, 4, 2, {"banner", "one", "seven",
          "two"}) EXCEPT !.exit = "fault"],
      [Boot("umode_bad_wait_buffer", NoPkg, <<>>, 3, 2, {"four", "one", "zero"}) EXCEPT
          !.exit = "fault"]>>

SerialEchoCases ==
    <<[Boot("umode_misaligned_wait_buffer", NoPkg, <<>>, 3, 2, {"four", "one",
          "zero"}) EXCEPT !.exit = "fault"],
      [Boot("uart_echo_ns16550", "uart-echo-ns16550", <<>>, 8, 2, {"banner", "one",
          "two"}) EXCEPT !.device = TRUE, !.typed = TRUE, !.arches = RiscvOnly,
          !.says = 1],
      [Boot("uart_echo_pl011", "uart-echo-pl011", <<>>, 8, 2, {"banner", "one",
          "two"}) EXCEPT !.device = TRUE, !.typed = TRUE, !.arches = ArmOnly, !.says = 1],
      [Boot("irq_bad_line", "irq-badline", <<>>, 4, 2, {"banner", "four", "one",
          "zero"}) EXCEPT !.exit = "fault"],
      [Boot("irq_early_ack", "irq-earlyack", <<>>, 4, 2, {"banner", "five", "one",
          "zero"}) EXCEPT !.exit = "fault"]>>

ClockCases ==
    <<[Boot("wait_deadlock", "wait-deadlock", <<>>, 4, 2, {"banner", "one", "six",
          "zero"}) EXCEPT !.exit = "fault"],
      Boot("clock_basics", "clock-basics", <<>>, 7, 1, {"banner", "eight", "one", "zero"}),
      Boot("timer_oneshot", "timer-oneshot", <<>>, 6, 1, {"banner", "one", "seven",
          "zero"}),
      Boot("timer_interval", "timer-interval", <<>>, 8, 1, {"banner", "one", "seven",
          "zero"})>>

TimerEdgeCases ==
    <<[Boot("timer_deadlock", "timer-deadlock", <<>>, 4, 2, {"banner", "one", "seven",
          "zero"}) EXCEPT !.exit = "fault"],
      [Boot("timer_badclock", "timer-badclock", <<>>, 4, 2, {"banner", "one", "three",
          "zero"}) EXCEPT !.exit = "fault"],
      [Boot("timer_badrecord", "timer-badrecord", <<>>, 4, 2, {"banner", "five", "one",
          "zero"}) EXCEPT !.exit = "fault"],
      Boot("event_consume", "event-consume", <<>>, 6, 1, {"banner", "one", "seven",
          "two"}),
      Boot("event_consume_wake", "event-consume-wake", <<>>, 8, 0, {"banner", "two"}),
      [Boot("root_server_oversteps", "faulting-root", <<>>, 2, 0, {}) EXCEPT
          !.exit = "fails", !.tier = "isolated"]>>

LifecycleCases ==
    <<[Boot("process_lifecycle", "process-lifecycle", <<"child-fault">>, 9, 3, {"banner",
          "one", "two", "zero"}) EXCEPT !.says = 2],
      [Boot("process_isolation", "process-isolation", <<"child-poke">>, 7, 2, {"banner",
          "one", "zero"}) EXCEPT !.tier = "isolated"],
      Boot("process_badimage", "process-badimage", <<"child-fault">>, 3, 0, {"banner"}),
      [Boot("process_doublestart", "process-doublestart", <<"child-fault">>, 4, 2,
          {"banner", "zero"}) EXCEPT !.exit = "fault"]>>

HandleCases ==
    <<[Boot("process_bootdrain", "process-bootdrain", <<"child-fault">>, 5, 1, {"banner",
          "two"}) EXCEPT !.says = 2],
      [Boot("handle_remint", "handle-remint", <<>>, 5, 2, {"banner", "five", "one",
          "zero"}) EXCEPT !.exit = "fault"],
      Boot("handle_release_ungated", "handle-release-ungated", <<>>, 4, 1, {"banner",
          "five", "one", "zero"}),
      [Boot("handle_release_nothing", "handle-release-nothing", <<>>, 4, 2, {"banner",
          "one", "three", "zero"}) EXCEPT !.exit = "fault"],
      [Boot("handle_release_twice", "handle-release-twice", <<>>, 5, 2, {"banner", "one",
          "three", "zero"}) EXCEPT !.exit = "fault"],
      [Boot("handle_malformed_word", "handle-malformed-word", <<>>, 4, 2, {"banner", "one",
          "three", "zero"}) EXCEPT !.exit = "fault"]>>

GiveCases ==
    <<Boot("handle_drop_release", "handle-drop-release", <<>>, 4, 1, {"banner", "five",
          "one", "zero"}),
      [Boot("process_reclaim", "process-reclaim", <<"child-fault">>, 7, 3, {"banner",
          "one", "two", "zero"}) EXCEPT !.says = 2],
      [Boot("give_boot_drain", "give-boot-drain", <<"child-drain">>, 11, 3, {"banner",
          "one", "two", "zero"}) EXCEPT !.says = 2],
      [Boot("give_duplicate_tag", "give-duplicate-tag", <<"child-fault">>, 4, 2, {"banner",
          "zero"}) EXCEPT !.exit = "fault"]>>

GiveRefusalCases ==
    <<[Boot("give_after_start", "give-after-start", <<"child-fault">>, 4, 2, {"banner",
          "zero"}) EXCEPT !.exit = "fault"],
      [Boot("give_no_transfer", "give-no-transfer", <<"child-fault">>, 4, 2, {"banner",
          "zero"}) EXCEPT !.exit = "fault"],
      [Boot("start_bad_tag", "start-bad-tag", <<"child-fault">>, 4, 2, {"banner",
          "zero"}) EXCEPT !.exit = "fault"],
      [Boot("give_word_dead", "give-word-dead", <<"child-fault">>, 5, 2, {"banner",
          "zero"}) EXCEPT !.exit = "fault"],
      [Boot("mint_revoked", "mint-revoked", <<>>, 4, 2, {"banner", "zero"}) EXCEPT
          !.exit = "fault"],
      Boot("child_no_shutdown", "child-no-shutdown", <<"child-oversteps">>, 8, 2,
          {"banner", "one", "zero"})>>

MapCases ==
    <<[Boot("memory_split", "memory-split", <<>>, 7, 3, {"banner", "one"}) EXCEPT
          !.exit = "fault", !.pool = TRUE, !.says = 1],
      [Boot("map_basics", "map-basics", <<>>, 6, 1, {"banner", "one"}) EXCEPT
          !.pool = TRUE, !.says = 1],
      [Boot("map_unmap", "map-unmap", <<>>, 5, 2, {"banner", "one"}) EXCEPT
          !.exit = "fails", !.pool = TRUE, !.tier = "isolated", !.says = 1],
      [Boot("map_into_child", "map-into-child", <<"child-touch">>, 9, 2, {"banner", "one",
          "three", "touch_mark"}) EXCEPT !.pool = TRUE, !.says = 3]>>

RefcountCases ==
    <<[Boot("iomemory_carve", "iomemory-carve", <<>>, 7, 3, {"banner", "one"}) EXCEPT
          !.exit = "fault", !.device = TRUE, !.says = 1],
      Boot("refcount_free", "refcount-free", <<>>, 5, 1, {"banner", "five", "one",
          "zero"}),
      Boot("interrupt_unbind", "interrupt-unbind", <<>>, 4, 1, {"banner", "five", "one",
          "zero"}),
      [Boot("mapping_slot_free", "mapping-slot-free", <<>>, 7, 2, {"banner", "one"}) EXCEPT
          !.pool = TRUE, !.says = 1]>>

QuotaCases ==
    <<[Boot("quota_exceeded", "quota-exceeded", <<"child-quota">>, 9, 3, {"banner", "five",
          "four", "one", "three", "two", "zero"}) EXCEPT !.says = 2],
      [Boot("quota_vs_wall", "quota-vs-wall", <<"child-mapwall">>, 9, 2, {"banner", "one",
          "three", "two"}) EXCEPT !.pool = TRUE, !.says = 3],
      [Boot("death_notify", "death-notify", <<"child-bye">>, 8, 3, {"banner", "five",
          "one", "two", "zero"}) EXCEPT !.says = 2]>>

DeathCases ==
    <<[Boot("death_fault", "death-fault", <<"child-fault">>, 8, 3, {"banner", "one", "two",
          "zero"}) EXCEPT !.says = 2],
      [Boot("death_late_attach", "death-late-attach", <<"child-bye">>, 9, 3, {"banner",
          "five", "one", "two", "zero"}) EXCEPT !.says = 2]>>

ChildEchoCases ==
    <<[Boot("child_echo_ns16550", "driver-child", <<"child-echo-ns16550">>, 14, 3,
          {"banner", "one", "six", "three", "two", "zero"}) EXCEPT !.device = TRUE,
          !.typed = TRUE, !.arches = RiscvOnly, !.says = 3],
      [Boot("child_echo_pl011", "driver-child", <<"child-echo-pl011">>, 14, 3, {"banner",
          "one", "six", "three", "two", "zero"}) EXCEPT !.device = TRUE, !.typed = TRUE,
          !.arches = ArmOnly, !.says = 3]>>

ShareCases ==
    <<[Boot("share_double_map", "share-double-map", <<"child-share">>, 12, 3, {"banner",
          "one", "share_mark", "three", "two", "zero"}) EXCEPT !.pool = TRUE, !.says = 3],
      [Boot("map_exec_gated", "map-exec-gated", <<>>, 8, 3, {"banner", "nine", "one",
          "zero"}) EXCEPT !.exit = "fault", !.pool = TRUE, !.says = 1],
      [Boot("map_wx_refused", "map-wx-refused", <<>>, 7, 3, {"banner", "eight", "one",
          "zero"}) EXCEPT !.exit = "fault", !.pool = TRUE, !.says = 1]>>

PipeFirstCases ==
    <<Boot("waiter_revoked", "waiter-revoked", <<>>, 8, 0, {"banner", "zero"}),
      Boot("pipe_basics", "pipe-basics", <<>>, 9, 0, {"banner"}),
      Boot("pipe_peer_gone", "pipe-peer-gone", <<>>, 9, 0, {"banner"})>>

PipeChildCases ==
    <<[Boot("pipe_child", "pipe-child", <<"child-post">>, 10, 3, {"banner", "four", "one",
          "two", "zero"}) EXCEPT !.says = 2],
      [Boot("pipe_no_post", "pipe-no-post", <<>>, 4, 2, {"banner", "zero"}) EXCEPT
          !.exit = "fault"],
      [Boot("pipe_oversized", "pipe-oversized", <<>>, 4, 2, {"banner", "zero"}) EXCEPT
          !.exit = "fault"],
      Boot("pipe_oneshot", "pipe-oneshot", <<>>, 11, 0, {"banner"})>>

PipeAbandonCases ==
    <<Boot("pipe_abandon", "pipe-abandon", <<>>, 6, 0, {"banner"}),
      [Boot("pipe_delegate", "pipe-delegate", <<"child-reply">>, 9, 3, {"banner", "four",
          "one", "two", "zero"}) EXCEPT !.says = 2],
      [Boot("pipe_no_reply", "pipe-no-reply", <<>>, 4, 2, {"banner", "zero"}) EXCEPT
          !.exit = "fault"],
      [Boot("pipe_big_reply", "pipe-big-reply", <<>>, 4, 2, {"banner", "zero"}) EXCEPT
          !.exit = "fault"]>>

PipeWaitCases ==
    <<[Boot("pipe_dead_claim", "pipe-dead-claim", <<>>, 7, 2, {"banner", "zero"}) EXCEPT
          !.exit = "fault"],
      Boot("pipe_wait_reply", "pipe-wait-reply", <<>>, 6, 0, {"banner"}),
      Boot("pipe_wait_give", "pipe-wait-give", <<>>, 6, 0, {"banner"}),
      Boot("pipe_wait_room", "pipe-wait-room", <<>>, 5, 0, {"banner"})>>

PipeServerCases ==
    <<Boot("pipe_wait_server", "pipe-wait-server", <<>>, 6, 0, {"banner"}),
      [Boot("pipe_send_manual", "pipe-send-manual", <<"child-server">>, 14, 3, {"banner",
          "four", "one", "two", "zero"}) EXCEPT !.says = 2],
      [Boot("pipe_no_wait", "pipe-no-wait", <<>>, 4, 2, {"banner", "zero"}) EXCEPT
          !.exit = "fault"]>>

PipeModeCases ==
    <<[Boot("pipe_bad_mode", "pipe-bad-mode", <<>>, 4, 2, {"banner", "zero"}) EXCEPT
          !.exit = "fault"],
      [Boot("process_stats", "process-stats", <<"child-stats">>, 8, 4, {"banner", "one",
          "seven", "two", "zero"}) EXCEPT !.exit = "fault", !.says = 2],
      [Boot("pipe_pingpong", "pipe-pingpong", <<"child-pingpong">>, 7, 2, {"banner", "one",
          "pingpong_mark", "two"}) EXCEPT !.says = 2]>>

PipeCallCases ==
    <<[Boot("pipe_call_abandon", "pipe-call-abandon", <<"child-caller">>, 7, 2, {"banner",
          "caller_mark", "one", "two"}) EXCEPT !.says = 2],
      [Boot("pipe_call_orphan", "pipe-call-orphan", <<"child-orphan">>, 6, 2, {"banner",
          "one", "orphan_mark", "two"}) EXCEPT !.says = 2],
      [Boot("pipe_no_call", "pipe-no-call", <<>>, 3, 1, {"banner", "zero"}) EXCEPT
          !.exit = "fault"],
      [Boot("pipe_call_oversized", "pipe-call-oversized", <<>>, 3, 1, {"banner",
          "zero"}) EXCEPT !.exit = "fault"]>>

PipeHandleCases ==
    <<Boot("pipe_reply_wait_dead", "pipe-reply-wait-dead", <<>>, 4, 0, {"banner"}),
      [Boot("pipe_send_exit", "pipe-send-exit", <<"child-sender">>, 6, 2, {"banner", "one",
          "two", "zero"}) EXCEPT !.says = 2],
      Boot("pipe_table_full", "pipe-table-full", <<>>, 3, 0, {"banner"}),
      [Boot("pipe_handles", "pipe-handles", <<"child-handles">>, 4, 1, {"banner",
          "two"}) EXCEPT !.says = 2],
      [Boot("pipe_delegate_msg", "pipe-delegate-msg", <<"child-handles">>, 6, 1, {"banner",
          "two"}) EXCEPT !.says = 2],
      [Boot("pipe_cq", "pipe-cq", <<"child-pingpong">>, 6, 1, {"banner", "two"}) EXCEPT
          !.says = 2]>>

ResolveCases ==
    <<[Boot("give_keep_mask", "give-keep-mask", <<"child-narrow">>, 7, 2, {"banner", "two",
          "zero"}) EXCEPT !.exit = "fault", !.says = 2],
      [Boot("pipe_resolve_park", "pipe-resolve-park", <<"child-server">>, 8, 1, {"banner",
          "two"}) EXCEPT !.says = 2],
      [Boot("pipe_resolve_orphan", "pipe-resolve-orphan", <<"child-resolver">>, 6, 2,
          {"banner", "one", "resolve_orphan_mark", "two"}) EXCEPT !.says = 2]>>

ServiceCases ==
    <<[Boot("uart_service_ns16550", "uart-service", <<"svc-uart-ns16550", "svc-client">>,
          18, 2, {"banner", "five", "two"}) EXCEPT !.device = TRUE, !.typed = TRUE,
          !.arches = RiscvOnly, !.says = 5],
      [Boot("uart_service_pl011", "uart-service", <<"svc-uart-pl011", "svc-client">>, 18,
          2, {"banner", "five", "two"}) EXCEPT !.device = TRUE, !.typed = TRUE,
          !.arches = ArmOnly, !.says = 5]>>

CancelCases ==
    <<[Boot("uart_cancel_ns16550", "uart-cancel", <<"svc-uart-ns16550">>, 13, 2, {"banner",
          "three"}) EXCEPT !.device = TRUE, !.arches = RiscvOnly, !.says = 3],
      [Boot("uart_cancel_pl011", "uart-cancel", <<"svc-uart-pl011">>, 13, 2, {"banner",
          "three"}) EXCEPT !.device = TRUE, !.arches = ArmOnly, !.says = 3],
      [Boot("pipe_delegate_3p", "delegate-3p", <<"child-forward", "child-far">>, 8, 1,
          {"banner", "four"}) EXCEPT !.says = 4]>>

PoolCases ==
    <<[Boot("memory_recycle", "memory-recycle", <<"child-touch">>, 8, 2, {"banner", "one",
          "three", "touch_mark"}) EXCEPT !.pool = TRUE, !.says = 3],
      [Boot("slab_donate", "slab-donate", <<>>, 7, 1, {"banner", "one"}) EXCEPT
          !.pool = TRUE, !.says = 1],
      [Boot("slab_donate_shared", "slab-donate-shared", <<>>, 5, 3, {"banner", "one",
          "zero"}) EXCEPT !.exit = "fault", !.pool = TRUE, !.says = 1],
      [Boot("map_placed", "map-placed", <<"child-placed">>, 12, 0, {"banner"}) EXCEPT
          !.pool = TRUE, !.arches = ArmOnly]>>

DonateCases ==
    <<[Boot("thread_donate", "thread-donate", <<>>, 8, 1, {"banner", "one"}) EXCEPT
          !.pool = TRUE, !.says = 1],
      [Boot("pipe_donate", "pipe-donate", <<>>, 8, 1, {"banner", "one"}) EXCEPT
          !.pool = TRUE, !.says = 1],
      [Boot("slab_donate_mapped", "slab-donate-mapped", <<"child-donor">>, 9, 3, {"banner",
          "one", "three", "zero"}) EXCEPT !.pool = TRUE, !.says = 3],
      [Boot("slab_donate_free_nodes", "slab-donate-free-nodes", <<>>, 9, 3, {"banner",
          "one", "zero"}) EXCEPT !.exit = "fault", !.pool = TRUE, !.arches = RiscvOnly,
          !.says = 1]>>

ProcessDonateCases ==
    <<[Boot("process_donate", "process-donate", <<"echo-child", "echo-child2",
          "echo-child3">>, 12, 1, {"banner", "six"}) EXCEPT !.says = 6],
      [Boot("tier_word", "tier-word", <<>>, 6, 2, {"banner", "tier", "zero"}) EXCEPT
          !.exit = "fault"]>>

StatsRegionCases ==
    <<[Boot("stats_region", "stats-region", <<"stats-reader">>, 10, 1, {"banner",
          "two"}) EXCEPT !.says = 2],
      [Boot("stats_region_ro", "stats-region-ro", <<>>, 4, 1, {"banner"}) EXCEPT
          !.exit = "fails", !.tier = "isolated"]>>

LastCases ==
    <<[Boot("arena_small", "arena-small", <<>>, 4, 0, {"banner"}) EXCEPT !.exit = "arena"],
      [Boot("c_hello", "c-hello", <<"c-child">>, 7, 1, {"banner", "two"}) EXCEPT
          !.says = 2]>>

-----------------------------------------------------------------------------
TEST_CASES ==
    PanicCases \o BootImageCases \o ThreadCases \o EventCases \o SerialEchoCases
    \o ClockCases \o TimerEdgeCases \o LifecycleCases \o HandleCases \o GiveCases
    \o GiveRefusalCases \o MapCases \o RefcountCases \o QuotaCases \o DeathCases
    \o ChildEchoCases \o ShareCases \o PipeFirstCases \o PipeChildCases
    \o PipeAbandonCases \o PipeWaitCases \o PipeServerCases \o PipeModeCases
    \o PipeCallCases \o PipeHandleCases \o ResolveCases \o ServiceCases \o CancelCases
    \o PoolCases \o DonateCases \o ProcessDonateCases \o StatsRegionCases \o LastCases

\* What the packages' manifests say: the packages built for one target only, and
\* the children linked for the second and third child window of riscv32.
RiscvPackages == {"uart-echo-ns16550", "child-echo-ns16550", "svc-uart-ns16550"}
ArmPackages == {"uart-echo-pl011", "child-echo-pl011", "svc-uart-pl011", "map-placed",
                "child-placed"}
SecondChildren == {"svc-client", "child-far", "echo-child2"}
ThirdChildren == {"echo-child3"}

=============================================================================
