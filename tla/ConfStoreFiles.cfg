CONSTANTS
  p1 = p1
  i1 = i1
  i2 = i2
  i3 = i3
  u1 = u1
  u2 = u2
  u3 = u3
  Proc = {p1}
  Index = {i1, i2, i3}
  Url = {u1, u2, u3}
  Key = {k1, k2}
  Value = {v}
  Falsy = {}
  None = None
  Kind <- StoreKind
  UrlOf <- PrivateUrls
SPECIFICATION Spec
INVARIANT CleanIsSaved
