SPECIFICATION LiveSpec
CONSTANTS
  Transactions = {t1, t2}
  t1 = t1
  t2 = t2
  None = None
  Workspaces = {1}
  Folders = {3, 4}
  Clips = {5}
  SubscriptionOf <- MCSubscriptionOf
  WorkspaceOf <- MCWorkspaceOf
  FolderOf <- MCFolderOf
  Last = 5
  Observed = t1
INVARIANTS IInv NoDeadlock
PROPERTIES DestroyedKnown ObservedEnds
CHECK_DEADLOCK FALSE
