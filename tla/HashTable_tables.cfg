CONSTANTS
  k1 = k1
  k2 = k2
  k3 = k3
  k4 = k4
  k5 = k5
  x = x
  y = y
  z = z
  t = t
  nil = nil
  true = true
  Key <- AllKeys
  FieldKey <- OnePerText
  NoKey = NoKey
  Text <- FourTexts
  Chars <- CharsOf
  Hash <- Hashes
  Value <- TwoValues
  Nil = nil
  True = true
  MinCapacity = 2
  MaxCapacity = 8
SPECIFICATION Spec
INVARIANTS TypeOK ProbeEnds CountExact Findable OneObjectPerText
PROPERTIES ImplementsDictionary
