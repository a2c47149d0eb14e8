-------------------------------- MODULE Sizes --------------------------------
(***************************************************************************)
(* The table of installation sizes that both custom resources use.  CPU is *)
(* in thousandths of a core and memory in Mi; a limit of 0 is no limit.    *)
(***************************************************************************)
EXTENDS ApiTypes

Limited(replicas, cpu, memory, cpuLimit, memoryLimit) ==
    [Replicas |-> replicas,
     Resources |-> [cpu |-> cpu, memory |-> memory,
                    cpuLimit |-> cpuLimit, memoryLimit |-> memoryLimit]]

Unlimited(replicas, cpu, memory) == Limited(replicas, cpu, memory, 0, 0)

(* A ClusterInstallationSize: one ComponentSize for each component. *)
Sized(app, minio, database) ==
    [App |-> app, Minio |-> minio, Database |-> database]

size100 ==
    Sized(Limited(1, 100, 256, 2000, 4096), Unlimited(1, 100, 256), Unlimited(1, 200, 512))

cloudSize10 ==
    Sized(Limited(2, 10, 150, 2000, 4096), Unlimited(4, 100, 256), Unlimited(2, 200, 512))

cloudSize100 ==
    Sized(Limited(2, 50, 256, 2000, 4096), Unlimited(4, 100, 256), Unlimited(2, 200, 512))

size1000 ==
    Sized(Limited(2, 150, 256, 2000, 4096), Unlimited(4, 150, 512), Unlimited(2, 250, 512))

size5000 ==
    Sized(Limited(2, 500, 500, 4000, 8192), Unlimited(4, 200, 500), Unlimited(3, 500, 500))

size10000 ==
    Sized(Limited(2, 500, 500, 4000, 8192), Unlimited(4, 200, 500), Unlimited(3, 500, 500))

size25000 ==
    Sized(Limited(2, 1000, 4096, 4000, 16384), Unlimited(4, 300, 500), Unlimited(3, 500, 1024))

sizeMiniSingleton ==
    Sized(Limited(1, 10, 150, 2000, 4096), Unlimited(1, 100, 256), Unlimited(1, 200, 512))

sizeMiniHA ==
    Sized(Limited(2, 10, 150, 2000, 4096), Unlimited(4, 100, 256), Unlimited(2, 200, 512))

SizeNames ==
    {"cloud10users", "cloud100users", "100users", "1000users", "5000users",
     "10000users", "25000users", "miniSingleton", "miniHA"}

validSizes ==
    [key \in SizeNames |->
        CASE key = "cloud10users"  -> cloudSize10
          [] key = "cloud100users" -> cloudSize100
          [] key = "100users"      -> size100
          [] key = "1000users"     -> size1000
          [] key = "5000users"     -> size5000
          [] key = "10000users"    -> size10000
          [] key = "25000users"    -> size25000
          [] key = "miniSingleton" -> sizeMiniSingleton
          [] key = "miniHA"        -> sizeMiniHA]

DefaultSize == size5000

(* The sizes GetClusterSize finds: none for a key it rejects. *)
GetClusterSize(key) == {validSizes[k] : k \in SizeNames \cap {key}}

=============================================================================
