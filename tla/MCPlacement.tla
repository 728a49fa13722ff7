----------------------------- MODULE MCPlacement -----------------------------
EXTENDS Placement

Tensor(role, layer, elements) == [role |-> role, layer |-> layer, elements |-> elements, group |-> None]

Manifest(layers, tied) ==
  [digest |-> "m", layers |-> layers, hidden |-> 2, kvWidth |-> 1, tied |-> tied, revision |-> None,
   tensors |-> <<Tensor("TOKEN_EMBEDDING", None, 4), Tensor("FINAL_NORM", None, 1),
                 Tensor("LM_HEAD", None, 4), Tensor("ARCHITECTURE_STATE", None, 1),
                 [Tensor("TRANSFORMER_LAYER", 0, 6) EXCEPT !.group = "g"]>>
               \o [i \in 1..(layers - 1) |-> Tensor("TRANSFORMER_LAYER", i, 6)]]

Budget(capacity) == [capacity |-> capacity, reserve |-> 2, safety |-> 10]

HostWorker(id, capacity) ==
  [id |-> id, endpoint |-> <<id>>, domain |-> "HOST", budgets |-> [HOST |-> Budget(capacity)],
   backend |-> "mlx", mode |-> "pageable", admission |-> [d \in Domains |-> 60],
   architecture |-> TRUE, mixed |-> TRUE, dtypes |-> {"F16", "F32"},
   buffers |-> 1, workspace |-> 2, transport |-> 2, allowance |-> 10]

DeviceWorker(id, capacity) ==
  [HostWorker(id, capacity) EXCEPT !.domain = "DEVICE", !.backend = "cuda", !.mode = "pinned",
     !.budgets = [DEVICE |-> Budget(capacity), HOST |-> Budget(10), HOST_PINNED |-> Budget(4)]]

Link(source, target, type) ==
  [source |-> source, target |-> target, latency |-> 2, bandwidth |-> 4, sender |-> 1,
   receiver |-> 1, type |-> type]

Workload(kv, chunk) ==
  [id |-> "w", prompt |-> 3, output |-> 2, concurrency |-> 1, cached |-> 5, kvFactor |-> 110,
   kv |-> kv, activation |-> "F16", chunk |-> chunk]

Setting(mode, execution, weight) == [mode |-> mode, execution |-> execution, weight |-> weight]

WorkerPairs == {<<HostWorker(1, 400), HostWorker(2, 400)>>, <<HostWorker(2, 400), HostWorker(1, 400)>>,
                <<HostWorker(1, 90), DeviceWorker(2, 400)>>, <<HostWorker(1, 60), DeviceWorker(2, 70)>>}

UnmeasuredInputs ==
  {[manifest |-> m, workers |-> ws, links |-> ls, workload |-> wl, settings |-> s] :
     m \in {Manifest(2, TRUE), Manifest(3, FALSE)},
     ws \in WorkerPairs,
     ls \in {<< >>, <<Link(2, 1, "DIRECT")>>, <<Link(1, 2, "DIRECT"), Link(2, 1, "DERP_RELAYED")>>,
             <<Link(1, 2, "DIRECT"), Link(2, 1, "DIRECT")>>},
     wl \in {Workload("F32", 0), Workload("F16", 2)},
     s \in {Setting("feasibility", "F32", None), Setting("estimated", "F16", None),
            Setting("estimated", "F32", "F16")}}

MeasuredInputs ==
  {[manifest |-> Manifest(2, TRUE), workers |-> <<HostWorker(1, 400), DeviceWorker(2, 400)>>,
    links |-> << >>, settings |-> s,
    workload |-> [Workload("F32", 0) EXCEPT !.cached = IF s.weight = None THEN @ ELSE @ + 1]] :
     s \in {Setting("measured", "F32", None), Setting("measured", "F32", "F16")}}

\* a precision the CPU backend cannot run, refused by the profiler's key
Unsupported ==
  {[i EXCEPT !.settings = Setting("measured", "F16", None), !.workload = Workload("F16", 0),
             !.workers = [k \in {1, 2} |-> [i.workers[k] EXCEPT !.backend = "cpu"]]] :
     i \in MeasuredInputs}

MCInputs == UnmeasuredInputs \cup MeasuredInputs \cup Unsupported
=============================================================================
